---- MODULE Spec2Model ----
\* A model of the VictoriaMetrics Cloud Terraform provider: the provider's
\* Configure step and the Create / Read / Update / Delete / ImportState
\* handlers of the deployment, access token and rule file resources, run by a
\* Terraform host against a remote API that stores what it is sent.
EXTENDS Integers, Sequences, FiniteSets, TLC

VARIABLES
    rtype,      \* the resource type of the managed resource instance
    state,      \* the Terraform state of that instance (Absent when none)
    remote,     \* the remote API's resources of that type (a set of records)
    nextId,     \* the number of ids the remote API has allocated
    last,       \* the last host operation: handlers run, API calls, diagnostics
    pconfig,    \* the provider block: api_key and base_url attributes
    env,        \* the process environment: VMCLOUD_API_KEY, VMCLOUD_BASE_URL
    presp,      \* the provider's ConfigureResponse (NotRun before Configure)
    client      \* the client field of the resource or data source (NoClient: nil)

vars == <<rtype, state, remote, nextId, last, pconfig, env, presp, client>>

-----------------------------------------------------------------------------
\* Strings. A Go string is a sequence of chunks; the chunk "/" is the one
\* character strings.Split looks for, and no other chunk contains it.

Str(c) == <<c>>
Empty == <<>>
Slash == <<"/">>

\* types.String: null, unknown or a known value. ValueString() of a null or
\* unknown value is the empty string.
StringNull == [k |-> "null", v |-> Empty]
StringUnknown == [k |-> "unknown", v |-> Empty]
StringValue(s) == [k |-> "value", v |-> s]
IsNull(x) == x.k = "null"
IsUnknown(x) == x.k = "unknown"
ValueString(x) == IF x.k = "value" THEN x.v ELSE Empty

-----------------------------------------------------------------------------
\* Integers. A 64-bit quantity is four 16-bit limbs, least significant first;
\* an int64 is its two's complement pattern, a uint32 is kept zero-extended.

Limb == 2^16
Zero64 == <<0, 0, 0, 0>>

\* The int64 of a small integer n (|n| < 2^31).
I64(n) ==
    IF n >= 0 THEN <<n % Limb, n \div Limb, 0, 0>>
    ELSE <<n % Limb, ((n - (n % Limb)) \div Limb) % Limb, Limb - 1, Limb - 1>>

\* The int64 2^32 + n, for 0 <= n < 2^31.
I64Above32(n) == <<n % Limb, n \div Limb, 1, 0>>

\* The sign of an int64.
IsNegative64(x) == x[4] >= Limb \div 2

\* uint32(x) of an int64 x: the low 32 bits.
Uint32(x) == <<x[1], x[2], 0, 0>>

\* uint64(x) of an int64 x, and int64(u) of a uint64 or uint32 u: the same bits.
Uint64(x) == x
Int64(u) == u

\* Does the unsigned u hold the number the int64 x holds?
SameNumber(x, u) == x = u /\ ~IsNegative64(x)

\* u / 1024 on a uint64: a right shift by ten bits; the mutant divides by 1000.
Div1024Mutant(u) ==
    LET c4 == u[4]
        c3 == (c4 % 1000) * Limb + u[3]
        c2 == (c3 % 1000) * Limb + u[2]
        c1 == (c2 % 1000) * Limb + u[1]
    IN <<c1 \div 1000, c2 \div 1000, c3 \div 1000, c4 \div 1000>>
Div1024(u) ==
    << (u[1] \div 1024) + (u[2] % 1024) * 64,
       (u[2] \div 1024) + (u[3] % 1024) * 64,
       (u[3] \div 1024) + (u[4] % 1024) * 64,
       u[4] \div 1024 >>

\* types.Int64: null, unknown or known. ValueInt64() of null or unknown is 0.
Int64Null == [k |-> "null", v |-> Zero64]
Int64Unknown == [k |-> "unknown", v |-> Zero64]
Int64Value(n) == [k |-> "value", v |-> n]
ValueInt64(x) == IF x.k = "value" THEN x.v ELSE Zero64

\* types.List of strings: null or a list of elements, each a types.String.
ListNull == [k |-> "null", v |-> <<>>]
ListValue(es) == [k |-> "value", v |-> es]

-----------------------------------------------------------------------------
\* Diagnostics, API calls and the result of one handler run.

Absent == [k |-> "absent"]
NoDiags == <<>>
NoCalls == <<>>
HasError(diags) == Len(diags) > 0

\* What a handler leaves behind: the state it set (or left), the remote
\* resources, the id counter, the API calls it made and its diagnostics.
Result(st, rem, nid, calls, diags) ==
    [state |-> st, remote |-> rem, nextId |-> nid, calls |-> calls, diags |-> diags]

Digits == <<"0", "1", "2", "3", "4", "5", "6", "7", "8", "9">>
\* The id the remote API gives the n-th resource it creates.
IdOf(n) == <<"id", Digits[(n % 10) + 1]>>

\* time.Time.Format(time.RFC3339) of the instant n.
FormatRFC3339(n) == <<"2025-01-01T00:00:0", Digits[(n % 10) + 1], "Z">>

\* The remote resource with a key, when there is one.
Having(rem, key) == {r \in rem : r.key = key}
Lookup(rem, key) == CHOOSE r \in rem : r.key = key

-----------------------------------------------------------------------------
\* The planner of the Terraform host, driven by each resource's schema: an
\* attribute is configured (Required or Optional) or Computed, and carries
\* plan modifiers.

DeploymentSchema ==
    [a \in {"id", "name", "type", "cloud_provider", "region", "tier",
            "storage_size", "storage_size_unit", "retention", "retention_unit",
            "deduplication", "deduplication_unit", "maintenance_window",
            "single_flags", "select_flags", "storage_flags", "insert_flags",
            "version", "status", "created_at", "access_endpoint"} |->
        [computed |-> a \in {"id", "version", "status", "created_at", "access_endpoint"},
         mods |-> IF a \in {"id", "type", "cloud_provider", "region", "created_at"}
                  THEN {"UseStateForUnknown"} ELSE {}]]

AccessTokenSchema ==
    [a \in {"id", "deployment_id", "type", "description", "tenant_id", "secret",
            "created_by", "created_at", "last_used_at"} |->
        [computed |-> a \in {"id", "secret", "created_by", "created_at", "last_used_at"},
         mods |-> IF a \in {"id", "deployment_id", "type", "description", "tenant_id",
                            "secret", "created_at"}
                  THEN {"UseStateForUnknown"} ELSE {}]]

RuleFileSchemaMutant ==
    [a \in {"id", "deployment_id", "file_name", "content"} |->
        [computed |-> a = "id",
         mods |-> IF a = "id" THEN {"UseStateForUnknown"} ELSE {}]]
RuleFileSchema ==
    [a \in {"id", "deployment_id", "file_name", "content"} |->
        [computed |-> a = "id",
         mods |-> IF a = "id" THEN {"UseStateForUnknown"}
                  ELSE IF a \in {"deployment_id", "file_name"} THEN {"RequiresReplace"}
                  ELSE {}]]

SchemaOf(t) ==
    CASE t = "victoriametricscloud_deployment" -> DeploymentSchema
      [] t = "victoriametricscloud_access_token" -> AccessTokenSchema
      [] t = "victoriametricscloud_rule_file" -> RuleFileSchema

Configured(schema) == {a \in DOMAIN schema : ~schema[a].computed}

\* The configured attributes whose value in the configuration differs from
\* the prior state.
ChangedAttrs(schema, cfg, prior) == {a \in Configured(schema) : cfg[a] # prior[a]}

\* What the host plans for a configuration against the prior state.
PlannedAction(schema, cfg, prior) ==
    IF prior = Absent THEN "create"
    ELSE IF ChangedAttrs(schema, cfg, prior) = {} THEN "noop"
    ELSE IF \E a \in ChangedAttrs(schema, cfg, prior) : "RequiresReplace" \in schema[a].mods
         THEN "replace"
    ELSE "update"

\* The planned value of every attribute: the configuration for a configured
\* attribute; for a computed one the prior state's value under
\* UseStateForUnknown when there is a prior state, and unknown otherwise.
PlanOf(schema, cfg, prior) ==
    [a \in DOMAIN schema |->
        IF ~schema[a].computed THEN cfg[a]
        ELSE IF prior # Absent /\ "UseStateForUnknown" \in schema[a].mods THEN prior[a]
        ELSE StringUnknown]

-----------------------------------------------------------------------------
\* The remote API for deployments. It stores what a request carries: the size
\* in GB (a size in TB times 1024), no flags on creation, and the flags of an
\* update. A call fails when the API refuses it (ok = FALSE) or, for an
\* existing-resource call, when no resource has the id.

\* u * 1024 on a uint64: a left shift by ten bits.
Mul1024(u) ==
    << (u[1] * 1024) % Limb,
       ((u[2] * 1024) % Limb) + (u[1] \div 64),
       ((u[3] * 1024) % Limb) + (u[2] \div 64),
       ((u[4] * 1024) % Limb) + (u[3] \div 64) >>

StorageSizeGbOf(size, unit) == IF unit = Str("TB") THEN Mul1024(size) ELSE size

NoFlags == [SingleFlags |-> <<>>, SelectFlags |-> <<>>,
            StorageFlags |-> <<>>, InsertFlags |-> <<>>]

\* CreateDeployment: the deployment the API makes of a creation request.
NewDeployment(req, nid) ==
    [key |-> IdOf(nid), ID |-> IdOf(nid),
     Name |-> req.Name, Type |-> req.Type, CloudProvider |-> req.Provider,
     Region |-> req.Region, Tier |-> req.Tier,
     StorageSizeGb |-> StorageSizeGbOf(req.StorageSize, req.StorageSizeUnit),
     RetentionValue |-> req.Retention, RetentionUnit |-> req.RetentionUnit,
     DeduplicationValue |-> req.Deduplication,
     DeduplicationUnit |-> req.DeduplicationUnit,
     MaintenanceWindow |-> req.MaintenanceWindow,
     Flags |-> NoFlags,
     Version |-> Str("v1.0"), Status |-> Str("PROVISIONING"),
     CreatedAt |-> nid, AccessEndpoint |-> Str("https://") \o IdOf(nid)]

\* UpdateDeployment: the deployment after an update request.
UpdatedDeployment(d, req) ==
    [d EXCEPT !.Name = req.Name, !.Tier = req.Tier,
              !.StorageSizeGb = StorageSizeGbOf(req.StorageSize, req.StorageSizeUnit),
              !.RetentionValue = req.Retention, !.RetentionUnit = req.RetentionUnit,
              !.DeduplicationValue = req.Deduplication,
              !.DeduplicationUnit = req.DeduplicationUnit,
              !.MaintenanceWindow = req.MaintenanceWindow,
              !.Flags = req.Flags]

-----------------------------------------------------------------------------
\* deploymentResource

DeploymentCreationRequest(plan) ==
    [Name |-> ValueString(plan.name),
     Type |-> ValueString(plan.type),
     Provider |-> ValueString(plan.cloud_provider),
     Region |-> ValueString(plan.region),
     Tier |-> Uint32(ValueInt64(plan.tier)),
     StorageSize |-> Uint64(ValueInt64(plan.storage_size)),
     StorageSizeUnit |-> ValueString(plan.storage_size_unit),
     Retention |-> Uint32(ValueInt64(plan.retention)),
     RetentionUnit |-> ValueString(plan.retention_unit),
     Deduplication |-> Uint32(ValueInt64(plan.deduplication)),
     DeduplicationUnit |-> ValueString(plan.deduplication_unit),
     MaintenanceWindow |-> ValueString(plan.maintenance_window)]

DeploymentCreate(plan, rem, nid, ok) ==
    LET req == DeploymentCreationRequest(plan)
        calls == <<[method |-> "CreateDeployment", request |-> req]>>
        d == NewDeployment(req, nid)
    IN  IF ~ok
        THEN Result(Absent, rem, nid, calls, <<"Error creating deployment">>)
        ELSE Result([plan EXCEPT !.id = StringValue(d.ID),
                                 !.version = StringValue(d.Version),
                                 !.status = StringValue(d.Status),
                                 !.created_at = StringValue(FormatRFC3339(d.CreatedAt)),
                                 !.access_endpoint = StringValue(d.AccessEndpoint)],
                    rem \cup {d}, nid + 1, calls, NoDiags)

\* The storage_size Read stores for the unit held in state; the mutant stores
\* the size in GB under either unit.
ReadStorageSizeMutant(st, d) ==
    IF ~IsNull(st.storage_size_unit)
    THEN CASE ValueString(st.storage_size_unit) = Str("GB") ->
                  Int64Value(Int64(d.StorageSizeGb))
           [] ValueString(st.storage_size_unit) = Str("TB") ->
                  Int64Value(Int64(d.StorageSizeGb))
           [] OTHER -> st.storage_size
    ELSE st.storage_size
ReadStorageSize(st, d) ==
    IF ~IsNull(st.storage_size_unit)
    THEN CASE ValueString(st.storage_size_unit) = Str("GB") ->
                  Int64Value(Int64(d.StorageSizeGb))
           [] ValueString(st.storage_size_unit) = Str("TB") ->
                  Int64Value(Int64(Div1024(d.StorageSizeGb)))
           [] OTHER -> st.storage_size
    ELSE st.storage_size

\* The variant removes a deployment the API no longer has from state.
DeploymentReadMutant(st, rem, nid, ok) ==
    LET id == ValueString(st.id)
        calls == <<[method |-> "GetDeploymentDetails", id |-> id]>>
    IN  IF ~ok
        THEN Result(st, rem, nid, calls, <<"Error Reading Deployment">>)
        ELSE IF Having(rem, id) = {}
        THEN Result(Absent, rem, nid, calls, NoDiags)
        ELSE LET d == Lookup(rem, id)
             IN Result([st EXCEPT
                     !.name = StringValue(d.Name),
                     !.type = StringValue(d.Type),
                     !.cloud_provider = StringValue(d.CloudProvider),
                     !.region = StringValue(d.Region),
                     !.tier = Int64Value(Int64(d.Tier)),
                     !.retention = Int64Value(Int64(d.RetentionValue)),
                     !.retention_unit = StringValue(d.RetentionUnit),
                     !.deduplication = Int64Value(Int64(d.DeduplicationValue)),
                     !.deduplication_unit = StringValue(d.DeduplicationUnit),
                     !.maintenance_window = StringValue(d.MaintenanceWindow),
                     !.version = StringValue(d.Version),
                     !.status = StringValue(d.Status),
                     !.created_at = StringValue(FormatRFC3339(d.CreatedAt)),
                     !.access_endpoint = StringValue(d.AccessEndpoint),
                     !.storage_size = ReadStorageSize(st, d)],
                   rem, nid, calls, NoDiags)
DeploymentRead(st, rem, nid, ok) ==
    LET id == ValueString(st.id)
        calls == <<[method |-> "GetDeploymentDetails", id |-> id]>>
    IN  IF ~ok \/ Having(rem, id) = {}
        THEN Result(st, rem, nid, calls, <<"Error Reading Deployment">>)
        ELSE LET d == Lookup(rem, id)
             IN Result([st EXCEPT
                     !.name = StringValue(d.Name),
                     !.type = StringValue(d.Type),
                     !.cloud_provider = StringValue(d.CloudProvider),
                     !.region = StringValue(d.Region),
                     !.tier = Int64Value(Int64(d.Tier)),
                     !.retention = Int64Value(Int64(d.RetentionValue)),
                     !.retention_unit = StringValue(d.RetentionUnit),
                     !.deduplication = Int64Value(Int64(d.DeduplicationValue)),
                     !.deduplication_unit = StringValue(d.DeduplicationUnit),
                     !.maintenance_window = StringValue(d.MaintenanceWindow),
                     !.version = StringValue(d.Version),
                     !.status = StringValue(d.Status),
                     !.created_at = StringValue(FormatRFC3339(d.CreatedAt)),
                     !.access_endpoint = StringValue(d.AccessEndpoint),
                     !.storage_size = ReadStorageSize(st, d)],
                   rem, nid, calls, NoDiags)

\* List.ElementsAs into []string: a null or unknown element cannot be held by
\* a Go string and is an error.
ElementsOk(list) == \A i \in 1..Len(list.v) : list.v[i].k = "value"
Elements(list) == [i \in 1..Len(list.v) |-> list.v[i].v]
\* One flag list of the update request: empty for a null list.
FlagsOf(list) == IF IsNull(list) THEN <<>> ELSE Elements(list)

\* The variant fills SelectFlags from single_flags.
DeploymentUpdateRequestMutant(plan) ==
    [Name |-> ValueString(plan.name),
     Tier |-> Uint32(ValueInt64(plan.tier)),
     StorageSize |-> Uint64(ValueInt64(plan.storage_size)),
     StorageSizeUnit |-> ValueString(plan.storage_size_unit),
     Retention |-> Uint32(ValueInt64(plan.retention)),
     RetentionUnit |-> ValueString(plan.retention_unit),
     Deduplication |-> Uint32(ValueInt64(plan.deduplication)),
     DeduplicationUnit |-> ValueString(plan.deduplication_unit),
     MaintenanceWindow |-> ValueString(plan.maintenance_window),
     Flags |-> [SingleFlags |-> FlagsOf(plan.single_flags),
                SelectFlags |-> FlagsOf(plan.single_flags),
                StorageFlags |-> FlagsOf(plan.storage_flags),
                InsertFlags |-> FlagsOf(plan.insert_flags)]]
DeploymentUpdateRequest(plan) ==
    [Name |-> ValueString(plan.name),
     Tier |-> Uint32(ValueInt64(plan.tier)),
     StorageSize |-> Uint64(ValueInt64(plan.storage_size)),
     StorageSizeUnit |-> ValueString(plan.storage_size_unit),
     Retention |-> Uint32(ValueInt64(plan.retention)),
     RetentionUnit |-> ValueString(plan.retention_unit),
     Deduplication |-> Uint32(ValueInt64(plan.deduplication)),
     DeduplicationUnit |-> ValueString(plan.deduplication_unit),
     MaintenanceWindow |-> ValueString(plan.maintenance_window),
     Flags |-> [SingleFlags |-> FlagsOf(plan.single_flags),
                SelectFlags |-> FlagsOf(plan.select_flags),
                StorageFlags |-> FlagsOf(plan.storage_flags),
                InsertFlags |-> FlagsOf(plan.insert_flags)]]

\* prior is the state the host keeps when the handler sets none.
DeploymentUpdate(plan, prior, rem, nid, ok) ==
    LET flagDiags ==
            SelectSeq(<<plan.single_flags, plan.select_flags,
                        plan.storage_flags, plan.insert_flags>>,
                      LAMBDA l : ~IsNull(l) /\ ~ElementsOk(l))
        id == ValueString(plan.id)
    IN  IF Len(flagDiags) > 0
        THEN Result(prior, rem, nid, NoCalls,
                    [i \in 1..Len(flagDiags) |-> "Value Conversion Error"])
        ELSE LET req == DeploymentUpdateRequest(plan)
                 calls == <<[method |-> "UpdateDeployment", id |-> id, request |-> req]>>
             IN  IF ~ok \/ Having(rem, id) = {}
                 THEN Result(prior, rem, nid, calls, <<"Error updating deployment">>)
                 ELSE LET d == UpdatedDeployment(Lookup(rem, id), req)
                      IN Result([plan EXCEPT
                                    !.version = StringValue(d.Version),
                                    !.status = StringValue(d.Status),
                                    !.access_endpoint = StringValue(d.AccessEndpoint)],
                                (rem \ Having(rem, id)) \cup {d}, nid, calls, NoDiags)

\* On success the host removes the state; on an error it keeps it.
\* The variant drops the state whether the API deleted the deployment or not.
DeploymentDeleteMutant(st, rem, nid, ok) ==
    LET id == ValueString(st.id)
        calls == <<[method |-> "DeleteDeployment", id |-> id]>>
    IN  IF ~ok \/ Having(rem, id) = {}
        THEN Result(Absent, rem, nid, calls, <<"Error deleting deployment">>)
        ELSE Result(Absent, rem \ Having(rem, id), nid, calls, NoDiags)
DeploymentDelete(st, rem, nid, ok) ==
    LET id == ValueString(st.id)
        calls == <<[method |-> "DeleteDeployment", id |-> id]>>
    IN  IF ~ok \/ Having(rem, id) = {}
        THEN Result(st, rem, nid, calls, <<"Error deleting deployment">>)
        ELSE Result(Absent, rem \ Having(rem, id), nid, calls, NoDiags)

\* The state of a deployment of which nothing is known: every attribute null.
DeploymentNullState ==
    [a \in DOMAIN DeploymentSchema |->
        IF a \in {"tier", "storage_size", "retention", "deduplication"} THEN Int64Null
        ELSE IF a \in {"single_flags", "select_flags", "storage_flags", "insert_flags"}
             THEN ListNull
        ELSE StringNull]

\* resource.ImportStatePassthroughID: the import id becomes the id attribute.
DeploymentImportState(id, rem, nid) ==
    Result([DeploymentNullState EXCEPT !.id = StringValue(id)], rem, nid, NoCalls, NoDiags)

-----------------------------------------------------------------------------
\* strings.Split(s, "/"): the parts between the slashes; one part, the whole
\* string, when there is no slash.

RECURSIVE Split(_)
Split(s) ==
    IF \A i \in 1..Len(s) : s[i] # "/"
    THEN <<s>>
    ELSE LET i == CHOOSE j \in 1..Len(s) :
                      s[j] = "/" /\ \A h \in 1..(j - 1) : s[h] # "/"
         IN <<SubSeq(s, 1, i - 1)>> \o Split(SubSeq(s, i + 1, Len(s)))

\* The import ids ImportState of a rule file and of an access token accept;
\* the variant only asks for a first and a second part.
ValidImportIDMutant(id) ==
    LET parts == Split(id)
    IN Len(parts) >= 2 /\ parts[1] # Empty /\ parts[2] # Empty
ValidImportID(id) ==
    LET parts == Split(id)
    IN Len(parts) = 2 /\ parts[1] # Empty /\ parts[2] # Empty

-----------------------------------------------------------------------------
\* accessTokenResource. The remote API gives a new token an id and a secret;
\* LastUsedAt is absent until the token is used.

NoTime == [k |-> "nil", t |-> 0]
Time(n) == [k |-> "time", t |-> n]

NewAccessToken(deploymentID, req, nid) ==
    [key |-> <<deploymentID, IdOf(nid)>>, ID |-> IdOf(nid),
     Type |-> req.Type, Description |-> req.Description, TenantID |-> req.TenantID,
     Secret |-> Str("secret-") \o IdOf(nid), CreatedBy |-> Str("user@example.com"),
     CreatedAt |-> nid, LastUsedAt |-> NoTime]

\* The secret attribute of a token the API returned in full; the variant is
\* the masked secret of the listing endpoint.
SecretOfMutant(token) == StringValue(Str("********"))
SecretOf(token) == StringValue(token.Secret)

AccessTokenCreateRequest(plan) ==
    [Type |-> ValueString(plan.type),
     Description |-> ValueString(plan.description),
     TenantID |-> IF ~IsNull(plan.tenant_id) THEN ValueString(plan.tenant_id) ELSE Empty]

\* The API calls Create issues for a plan; the mutant checks the access mode
\* first and issues none for a mode the API does not document.
AccessTokenCreateCallsMutant(plan) ==
    IF ValueString(plan.type) \in {Str("r"), Str("w"), Str("rw")}
    THEN <<[method |-> "CreateDeploymentAccessToken",
            deploymentID |-> ValueString(plan.deployment_id),
            request |-> AccessTokenCreateRequest(plan)]>>
    ELSE NoCalls
AccessTokenCreateCalls(plan) ==
    <<[method |-> "CreateDeploymentAccessToken",
       deploymentID |-> ValueString(plan.deployment_id),
       request |-> AccessTokenCreateRequest(plan)]>>

AccessTokenCreate(plan, rem, nid, ok) ==
    LET calls == AccessTokenCreateCalls(plan)
        token == NewAccessToken(ValueString(plan.deployment_id),
                                AccessTokenCreateRequest(plan), nid)
    IN  IF ~ok
        THEN Result(Absent, rem, nid, calls, <<"Error creating access token">>)
        ELSE Result([plan EXCEPT
                        !.id = StringValue(token.ID),
                        !.secret = SecretOf(token),
                        !.created_by = StringValue(token.CreatedBy),
                        !.created_at = StringValue(FormatRFC3339(token.CreatedAt)),
                        !.last_used_at =
                            IF token.LastUsedAt # NoTime
                            THEN StringValue(FormatRFC3339(token.LastUsedAt.t))
                            ELSE @],
                    rem \cup {token}, nid + 1, calls, NoDiags)

\* The last_used_at Read stores: null for a token never used.
ReadLastUsedAt(st, token) ==
    IF token.LastUsedAt # NoTime
    THEN StringValue(FormatRFC3339(token.LastUsedAt.t))
    ELSE StringNull

\* The variant removes a token the API no longer has from state.
AccessTokenReadMutant(st, rem, nid, ok) ==
    LET key == <<ValueString(st.deployment_id), ValueString(st.id)>>
        calls == <<[method |-> "RevealDeploymentAccessToken",
                    deploymentID |-> key[1], id |-> key[2]]>>
    IN  IF ~ok
        THEN Result(st, rem, nid, calls, <<"Error Reading Access Token">>)
        ELSE IF Having(rem, key) = {}
        THEN Result(Absent, rem, nid, calls, NoDiags)
        ELSE LET token == Lookup(rem, key)
             IN Result([st EXCEPT
                     !.type = StringValue(token.Type),
                     !.description = StringValue(token.Description),
                     !.secret = SecretOf(token),
                     !.created_by = StringValue(token.CreatedBy),
                     !.created_at = StringValue(FormatRFC3339(token.CreatedAt)),
                     !.last_used_at = ReadLastUsedAt(st, token),
                     !.tenant_id =
                         IF token.TenantID # Empty THEN StringValue(token.TenantID) ELSE @],
                   rem, nid, calls, NoDiags)
AccessTokenRead(st, rem, nid, ok) ==
    LET key == <<ValueString(st.deployment_id), ValueString(st.id)>>
        calls == <<[method |-> "RevealDeploymentAccessToken",
                    deploymentID |-> key[1], id |-> key[2]]>>
    IN  IF ~ok \/ Having(rem, key) = {}
        THEN Result(st, rem, nid, calls, <<"Error Reading Access Token">>)
        ELSE LET token == Lookup(rem, key)
             IN Result([st EXCEPT
                     !.type = StringValue(token.Type),
                     !.description = StringValue(token.Description),
                     !.secret = SecretOf(token),
                     !.created_by = StringValue(token.CreatedBy),
                     !.created_at = StringValue(FormatRFC3339(token.CreatedAt)),
                     !.last_used_at = ReadLastUsedAt(st, token),
                     !.tenant_id =
                         IF token.TenantID # Empty THEN StringValue(token.TenantID) ELSE @],
                   rem, nid, calls, NoDiags)

\* Update makes no API call and always reports an error; the variant stores
\* the plan besides.
AccessTokenUpdateMutant(plan, prior, rem, nid, ok) ==
    Result(plan, rem, nid, NoCalls, <<"Update not supported">>)
AccessTokenUpdate(plan, prior, rem, nid, ok) ==
    Result(prior, rem, nid, NoCalls, <<"Update not supported">>)

AccessTokenDelete(st, rem, nid, ok) ==
    LET key == <<ValueString(st.deployment_id), ValueString(st.id)>>
        calls == <<[method |-> "DeleteDeploymentAccessToken",
                    deploymentID |-> key[1], id |-> key[2]]>>
    IN  IF ~ok \/ Having(rem, key) = {}
        THEN Result(st, rem, nid, calls, <<"Error deleting access token">>)
        ELSE Result(Absent, rem \ Having(rem, key), nid, calls, NoDiags)

AccessTokenNullState == [a \in DOMAIN AccessTokenSchema |-> StringNull]

AccessTokenImportState(id, rem, nid) ==
    IF ~ValidImportID(id)
    THEN Result(Absent, rem, nid, NoCalls, <<"Invalid Import ID">>)
    ELSE Result([AccessTokenNullState EXCEPT
                    !.deployment_id = StringValue(Split(id)[1]),
                    !.id = StringValue(Split(id)[2])],
                rem, nid, NoCalls, NoDiags)

-----------------------------------------------------------------------------
\* ruleFileResource. The remote API keeps one content per deployment id and
\* file name; creating or updating a file stores its content under that key.

StoredRuleFile(rem, deploymentID, fileName, content) ==
    (rem \ Having(rem, <<deploymentID, fileName>>))
        \cup {[key |-> <<deploymentID, fileName>>, Content |-> content]}

\* Create that numbers the files it makes.
RuleFileCreateMutant(plan, rem, nid, ok) ==
    LET deploymentID == ValueString(plan.deployment_id)
        fileName == ValueString(plan.file_name)
        content == ValueString(plan.content)
        calls == <<[method |-> "CreateDeploymentRuleFileContent",
                    deploymentID |-> deploymentID, fileName |-> fileName,
                    content |-> content]>>
    IN  IF ~ok
        THEN Result(Absent, rem, nid, calls, <<"Error creating rule file">>)
        ELSE Result([plan EXCEPT !.id = StringValue(deploymentID \o Slash \o fileName
                                                       \o Slash \o IdOf(nid))],
                    StoredRuleFile(rem, deploymentID, fileName, content),
                    nid + 1, calls, NoDiags)
RuleFileCreate(plan, rem, nid, ok) ==
    LET deploymentID == ValueString(plan.deployment_id)
        fileName == ValueString(plan.file_name)
        content == ValueString(plan.content)
        calls == <<[method |-> "CreateDeploymentRuleFileContent",
                    deploymentID |-> deploymentID, fileName |-> fileName,
                    content |-> content]>>
    IN  IF ~ok
        THEN Result(Absent, rem, nid, calls, <<"Error creating rule file">>)
        ELSE Result([plan EXCEPT !.id = StringValue(deploymentID \o Slash \o fileName)],
                    StoredRuleFile(rem, deploymentID, fileName, content),
                    nid, calls, NoDiags)

\* The variant takes the file out of the state when it cannot be read.
RuleFileReadMutant(st, rem, nid, ok) ==
    LET key == <<ValueString(st.deployment_id), ValueString(st.file_name)>>
        calls == <<[method |-> "GetDeploymentRuleFileContent",
                    deploymentID |-> key[1], fileName |-> key[2]]>>
    IN  IF ~ok \/ Having(rem, key) = {}
        THEN Result(Absent, rem, nid, calls, <<"Error Reading Rule File">>)
        ELSE Result([st EXCEPT !.content = StringValue(Lookup(rem, key).Content)],
                    rem, nid, calls, NoDiags)
RuleFileRead(st, rem, nid, ok) ==
    LET key == <<ValueString(st.deployment_id), ValueString(st.file_name)>>
        calls == <<[method |-> "GetDeploymentRuleFileContent",
                    deploymentID |-> key[1], fileName |-> key[2]]>>
    IN  IF ~ok \/ Having(rem, key) = {}
        THEN Result(st, rem, nid, calls, <<"Error Reading Rule File">>)
        ELSE Result([st EXCEPT !.content = StringValue(Lookup(rem, key).Content)],
                    rem, nid, calls, NoDiags)

\* The variant sends the content the state holds, not the planned one.
RuleFileUpdateMutant(plan, prior, rem, nid, ok) ==
    LET deploymentID == ValueString(plan.deployment_id)
        fileName == ValueString(plan.file_name)
        content == ValueString(prior.content)
        calls == <<[method |-> "UpdateDeploymentRuleFileContent",
                    deploymentID |-> deploymentID, fileName |-> fileName,
                    content |-> content]>>
    IN  IF ~ok
        THEN Result(prior, rem, nid, calls, <<"Error updating rule file">>)
        ELSE Result(plan, StoredRuleFile(rem, deploymentID, fileName, content),
                    nid, calls, NoDiags)
RuleFileUpdate(plan, prior, rem, nid, ok) ==
    LET deploymentID == ValueString(plan.deployment_id)
        fileName == ValueString(plan.file_name)
        content == ValueString(plan.content)
        calls == <<[method |-> "UpdateDeploymentRuleFileContent",
                    deploymentID |-> deploymentID, fileName |-> fileName,
                    content |-> content]>>
    IN  IF ~ok
        THEN Result(prior, rem, nid, calls, <<"Error updating rule file">>)
        ELSE Result(plan, StoredRuleFile(rem, deploymentID, fileName, content),
                    nid, calls, NoDiags)

RuleFileDelete(st, rem, nid, ok) ==
    LET key == <<ValueString(st.deployment_id), ValueString(st.file_name)>>
        calls == <<[method |-> "DeleteDeploymentRuleFile",
                    deploymentID |-> key[1], fileName |-> key[2]]>>
    IN  IF ~ok \/ Having(rem, key) = {}
        THEN Result(st, rem, nid, calls, <<"Error deleting rule file">>)
        ELSE Result(Absent, rem \ Having(rem, key), nid, calls, NoDiags)

RuleFileNullState == [a \in DOMAIN RuleFileSchema |-> StringNull]

RuleFileImportState(id, rem, nid) ==
    IF ~ValidImportID(id)
    THEN Result(Absent, rem, nid, NoCalls, <<"Invalid Import ID">>)
    ELSE Result([RuleFileNullState EXCEPT
                    !.deployment_id = StringValue(Split(id)[1]),
                    !.file_name = StringValue(Split(id)[2]),
                    !.id = StringValue(id)],
                rem, nid, NoCalls, NoDiags)

-----------------------------------------------------------------------------
\* victoriametricsCloudProvider.Configure

NotRun == [k |-> "notrun"]
NoClient == [k |-> "nil"]

\* vmcloudapi.New(apiKey, options...): the client, holding what it was given.
NewClient(apiKey, options) == [k |-> "client", apiKey |-> apiKey, options |-> options]

\* The variant lets a set environment variable win over the configuration.
ProviderConfigureMutant(config, environ, newOk) ==
    LET apiKey == IF environ.VMCLOUD_API_KEY = Empty
                  THEN ValueString(config.api_key) ELSE environ.VMCLOUD_API_KEY
        baseURL == IF environ.VMCLOUD_BASE_URL = Empty
                   THEN ValueString(config.base_url) ELSE environ.VMCLOUD_BASE_URL
        options == IF baseURL # Empty THEN <<[WithBaseURL |-> baseURL]>> ELSE <<>>
    IN  IF apiKey = Empty
        THEN [DataSourceData |-> NoClient, ResourceData |-> NoClient,
              diags |-> <<"Missing API Key Configuration">>]
        ELSE IF ~newOk
        THEN [DataSourceData |-> NoClient, ResourceData |-> NoClient,
              diags |-> <<"Unable to Create VictoriaMetrics Cloud API Client">>]
        ELSE LET theClient == NewClient(apiKey, options)
             IN [DataSourceData |-> theClient, ResourceData |-> theClient,
                 diags |-> NoDiags]
\* newOk: whether vmcloudapi.New returns a client rather than an error.
ProviderConfigure(config, environ, newOk) ==
    LET apiKey == IF ~IsNull(config.api_key)
                  THEN ValueString(config.api_key) ELSE environ.VMCLOUD_API_KEY
        baseURL == IF ~IsNull(config.base_url)
                   THEN ValueString(config.base_url) ELSE environ.VMCLOUD_BASE_URL
        options == IF baseURL # Empty THEN <<[WithBaseURL |-> baseURL]>> ELSE <<>>
    IN  IF apiKey = Empty
        THEN [DataSourceData |-> NoClient, ResourceData |-> NoClient,
              diags |-> <<"Missing API Key Configuration">>]
        ELSE IF ~newOk
        THEN [DataSourceData |-> NoClient, ResourceData |-> NoClient,
              diags |-> <<"Unable to Create VictoriaMetrics Cloud API Client">>]
        ELSE LET theClient == NewClient(apiKey, options)
             IN [DataSourceData |-> theClient, ResourceData |-> theClient,
                 diags |-> NoDiags]

\* The type assertion req.ProviderData.(*vmcloudapi.VMCloudAPIClient) of a
\* non-nil provider data. The variant takes every value for a client.
AsClientMutant(providerData) == TRUE
AsClient(providerData) == providerData.k = "client"

\* Configure of a resource or of a data source (the eight are alike): nil
\* provider data leaves the client field alone, a client is stored, anything
\* else is reported. The variant forgets to store it.
ConfigureClientMutant(prior, providerData) ==
    IF providerData = NoClient
    THEN [client |-> prior, diags |-> NoDiags]
    ELSE IF providerData.k # "client"
    THEN [client |-> prior, diags |-> <<"Unexpected Resource Configure Type">>]
    ELSE [client |-> prior, diags |-> NoDiags]
ConfigureClient(prior, providerData) ==
    IF providerData = NoClient
    THEN [client |-> prior, diags |-> NoDiags]
    ELSE IF ~AsClient(providerData)
    THEN [client |-> prior, diags |-> <<"Unexpected Resource Configure Type">>]
    ELSE [client |-> providerData, diags |-> NoDiags]

-----------------------------------------------------------------------------
\* The handlers of a resource type.

Deployment == "victoriametricscloud_deployment"
AccessToken == "victoriametricscloud_access_token"
RuleFile == "victoriametricscloud_rule_file"
ResourceTypes == {Deployment, AccessToken, RuleFile}

\* The provider data the host hands to Configure of a resource or data source.
ProviderDataOf(t, response) ==
    IF response = NotRun THEN NoClient
    ELSE IF t \in ResourceTypes THEN response.ResourceData
    ELSE response.DataSourceData

CreateOf(t, plan, rem, nid, ok) ==
    CASE t = Deployment -> DeploymentCreate(plan, rem, nid, ok)
      [] t = AccessToken -> AccessTokenCreate(plan, rem, nid, ok)
      [] t = RuleFile -> RuleFileCreate(plan, rem, nid, ok)

ReadOf(t, st, rem, nid, ok) ==
    CASE t = Deployment -> DeploymentRead(st, rem, nid, ok)
      [] t = AccessToken -> AccessTokenRead(st, rem, nid, ok)
      [] t = RuleFile -> RuleFileRead(st, rem, nid, ok)

UpdateOf(t, plan, prior, rem, nid, ok) ==
    CASE t = Deployment -> DeploymentUpdate(plan, prior, rem, nid, ok)
      [] t = AccessToken -> AccessTokenUpdate(plan, prior, rem, nid, ok)
      [] t = RuleFile -> RuleFileUpdate(plan, prior, rem, nid, ok)

DeleteOf(t, st, rem, nid, ok) ==
    CASE t = Deployment -> DeploymentDelete(st, rem, nid, ok)
      [] t = AccessToken -> AccessTokenDelete(st, rem, nid, ok)
      [] t = RuleFile -> RuleFileDelete(st, rem, nid, ok)

ImportStateOf(t, id, rem, nid) ==
    CASE t = Deployment -> DeploymentImportState(id, rem, nid)
      [] t = AccessToken -> AccessTokenImportState(id, rem, nid)
      [] t = RuleFile -> RuleFileImportState(id, rem, nid)

-----------------------------------------------------------------------------
\* The configurations, import ids and remote changes the model draws from.

MaxIds == 1

\* examples/resources: victoriametricscloud_deployment.single_demo
SingleDemo ==
    [name |-> StringValue(Str("Single demo")),
     type |-> StringValue(Str("single_node")),
     cloud_provider |-> StringValue(Str("aws")),
     region |-> StringValue(Str("eu-west-1")),
     tier |-> Int64Value(I64(21)),
     storage_size |-> Int64Value(I64(20)),
     storage_size_unit |-> StringValue(Str("GB")),
     retention |-> Int64Value(I64(30)),
     retention_unit |-> StringValue(Str("d")),
     deduplication |-> Int64Value(I64(30)),
     deduplication_unit |-> StringValue(Str("s")),
     maintenance_window |-> StringValue(Str("Sat-Sun 3-4am")),
     single_flags |-> ListValue(<<StringValue(Str("-search.maxQueryDuration=360s"))>>),
     select_flags |-> ListNull,
     storage_flags |-> ListNull,
     insert_flags |-> ListNull]

\* single_demo and the configurations that differ from it in one place.
DeploymentConfigs ==
    {SingleDemo,
     [SingleDemo EXCEPT !.single_flags = ListNull],
     [SingleDemo EXCEPT !.single_flags = ListValue(<<StringNull>>)],
     [SingleDemo EXCEPT !.type = StringValue(Str("cluster"))],
     [SingleDemo EXCEPT !.tier = Int64Value(I64Above32(21))],
     [SingleDemo EXCEPT !.storage_size = Int64Value(I64(-1))],
     [SingleDemo EXCEPT !.storage_size = Int64Value(I64(2)),
                        !.storage_size_unit = StringValue(Str("TB"))],
     [SingleDemo EXCEPT !.storage_size_unit = StringValue(Str("MB"))]}

\* The sizes, in GB, an operator of the remote console resizes a deployment to.
RemoteSizes == {I64(2000)}

\* examples/resources: victoriametricscloud_access_token.single_app_token
SingleAppToken ==
    [deployment_id |-> StringValue(Str("dep1")),
     description |-> StringValue(Str("Application read-write token")),
     type |-> StringValue(Str("rw")),
     tenant_id |-> StringNull]

\* single_app_token and the configurations that differ from it in one place.
AccessTokenConfigs ==
    {SingleAppToken,
     [SingleAppToken EXCEPT !.deployment_id = StringValue(Str("dep2"))],
     [SingleAppToken EXCEPT !.description = StringValue(Str("Grafana read-only token"))],
     [SingleAppToken EXCEPT !.type = StringValue(Str("admin"))],
     [SingleAppToken EXCEPT !.tenant_id = StringValue(Str("1"))],
     [SingleAppToken EXCEPT !.tenant_id = StringValue(Empty)]}

\* examples/resources: victoriametricscloud_rule_file.recording_rules
RecordingRules ==
    [deployment_id |-> StringValue(Str("dep1")),
     file_name |-> StringValue(Str("recording_rules.yaml")),
     content |-> StringValue(Str("groups: []"))]

\* recording_rules and the configurations that differ from it in one place.
RuleFileConfigs ==
    {RecordingRules,
     [RecordingRules EXCEPT !.deployment_id = StringValue(Str("dep2"))],
     [RecordingRules EXCEPT !.file_name = StringValue(Str("alerts.yaml"))],
     [RecordingRules EXCEPT
        !.file_name = StringValue(Str("rules") \o Slash \o Str("alerts.yaml"))],
     [RecordingRules EXCEPT !.content = StringValue(Str("groups: [a]"))]}

\* The content an operator of the remote console gives a rule file.
RemoteContents == {Str("groups: [b]")}

ConfigsOf(t) ==
    CASE t = Deployment -> DeploymentConfigs
      [] t = AccessToken -> AccessTokenConfigs
      [] t = RuleFile -> RuleFileConfigs

\* Import ids: those of the ids the API allocates, well formed and not.
ImportIDs(t) ==
    IF t = Deployment
    THEN {IdOf(n) : n \in 0..MaxIds}
    ELSE IF t = AccessToken
    THEN {Str("dep1") \o Slash \o IdOf(n) : n \in 0..MaxIds}
            \cup {Str("dep1"), Str("dep1") \o Slash, Slash \o IdOf(0),
                  Str("dep1") \o Slash \o IdOf(0) \o Slash \o Str("x")}
    ELSE {Str("dep1") \o Slash \o Str("alerts.yaml"),
          Str("dep1") \o Slash \o Str("recording_rules.yaml"),
          Str("dep1"), Str("dep1") \o Slash, Slash \o Str("alerts.yaml"),
          Str("dep1") \o Slash \o Str("rules") \o Slash \o Str("alerts.yaml")}

-----------------------------------------------------------------------------
\* The Terraform host: it plans a configuration against the state and runs
\* the handlers of the plan; the remote console changes resources besides.

Last(op, handlers, calls, diags) ==
    [op |-> op, handlers |-> handlers, calls |-> calls, diags |-> diags]

Apply(r) ==
    /\ state' = r.state
    /\ remote' = r.remote
    /\ nextId' = r.nextId

\* terraform apply, no prior state: Create.
TfCreate ==
    /\ state = Absent
    /\ nextId < MaxIds
    /\ \E cfg \in ConfigsOf(rtype), ok \in BOOLEAN :
         LET r == CreateOf(rtype, PlanOf(SchemaOf(rtype), cfg, Absent), remote, nextId, ok)
         IN /\ Apply(r)
            /\ last' = Last("Create", <<"Create">>, r.calls, r.diags)
    /\ UNCHANGED <<rtype, pconfig, env, presp, client>>

\* terraform apply, a change that no attribute's RequiresReplace covers: Update.
TfUpdate ==
    /\ state # Absent
    /\ \E cfg \in ConfigsOf(rtype), ok \in BOOLEAN :
         /\ PlannedAction(SchemaOf(rtype), cfg, state) = "update"
         /\ LET r == UpdateOf(rtype, PlanOf(SchemaOf(rtype), cfg, state), state,
                              remote, nextId, ok)
            IN /\ Apply(r)
               /\ last' = Last("Update", <<"Update">>, r.calls, r.diags)
    /\ UNCHANGED <<rtype, pconfig, env, presp, client>>

\* terraform apply, a change of a RequiresReplace attribute: Delete, and when
\* that succeeded Create.
TfReplace ==
    /\ state # Absent
    /\ nextId < MaxIds
    /\ \E cfg \in ConfigsOf(rtype), okDelete \in BOOLEAN, okCreate \in BOOLEAN :
         /\ PlannedAction(SchemaOf(rtype), cfg, state) = "replace"
         /\ LET d == DeleteOf(rtype, state, remote, nextId, okDelete)
                c == CreateOf(rtype, PlanOf(SchemaOf(rtype), cfg, Absent),
                              d.remote, d.nextId, okCreate)
            IN IF HasError(d.diags)
               THEN /\ Apply(d)
                    /\ last' = Last("Replace", <<"Delete">>, d.calls, d.diags)
               ELSE /\ Apply(c)
                    /\ last' = Last("Replace", <<"Delete", "Create">>,
                                    d.calls \o c.calls, c.diags)
    /\ UNCHANGED <<rtype, pconfig, env, presp, client>>

\* terraform refresh: Read.
TfRead ==
    /\ state # Absent
    /\ \E ok \in BOOLEAN :
         LET r == ReadOf(rtype, state, remote, nextId, ok)
         IN /\ Apply(r)
            /\ last' = Last("Read", <<"Read">>, r.calls, r.diags)
    /\ UNCHANGED <<rtype, pconfig, env, presp, client>>

\* terraform destroy: Delete.
TfDelete ==
    /\ state # Absent
    /\ \E ok \in BOOLEAN :
         LET r == DeleteOf(rtype, state, remote, nextId, ok)
         IN /\ Apply(r)
            /\ last' = Last("Delete", <<"Delete">>, r.calls, r.diags)
    /\ UNCHANGED <<rtype, pconfig, env, presp, client>>

\* terraform import: ImportState, then Read of the imported state; nothing is
\* kept when either reports an error.
TfImport ==
    /\ state = Absent
    /\ \E id \in ImportIDs(rtype), ok \in BOOLEAN :
         LET i == ImportStateOf(rtype, id, remote, nextId)
         IN IF HasError(i.diags)
            THEN /\ Apply(i)
                 /\ last' = Last("Import", <<"ImportState">>, i.calls, i.diags)
            ELSE LET r == ReadOf(rtype, i.state, remote, nextId, ok)
                 IN /\ Apply(IF HasError(r.diags) THEN [r EXCEPT !.state = Absent] ELSE r)
                    /\ last' = Last("Import", <<"ImportState", "Read">>,
                                    r.calls, r.diags)
    /\ UNCHANGED <<rtype, pconfig, env, presp, client>>

\* terraform state rm: the host forgets the resource; the remote keeps it.
TfForget ==
    /\ state # Absent
    /\ state' = Absent
    /\ last' = Last("Forget", <<>>, NoCalls, NoDiags)
    /\ UNCHANGED <<rtype, remote, nextId, pconfig, env, presp, client>>

\* The remote console: a deployment is resized, a rule file edited, an access
\* token used.
RemoteChange ==
    /\ \E r \in remote :
         \/ /\ rtype = Deployment
            /\ \E gb \in RemoteSizes :
                 remote' = (remote \ {r}) \cup {[r EXCEPT !.StorageSizeGb = gb]}
         \/ /\ rtype = RuleFile
            /\ \E c \in RemoteContents :
                 remote' = (remote \ {r}) \cup {[r EXCEPT !.Content = c]}
         \/ /\ rtype = AccessToken
            /\ remote' = (remote \ {r}) \cup {[r EXCEPT !.LastUsedAt = Time(5)]}
    /\ last' = Last("Remote", <<>>, NoCalls, NoDiags)
    /\ UNCHANGED <<rtype, state, nextId, pconfig, env, presp, client>>

\* The remote console: a resource is deleted outside Terraform.
RemoteRemove ==
    /\ \E r \in remote : remote' = remote \ {r}
    /\ last' = Last("Remote", <<>>, NoCalls, NoDiags)
    /\ UNCHANGED <<rtype, state, nextId, pconfig, env, presp, client>>

\* examples/provider: api_key = var.api_key, no base_url, no environment.
ExampleProviderConfig == [api_key |-> StringValue(Str("key")), base_url |-> StringNull]
NoEnvironment == [VMCLOUD_API_KEY |-> Empty, VMCLOUD_BASE_URL |-> Empty]

\* A resource is managed once the provider is configured.
Init ==
    /\ rtype \in ResourceTypes
    /\ state = Absent
    /\ remote = {}
    /\ nextId = 0
    /\ last = Last("None", <<>>, NoCalls, NoDiags)
    /\ pconfig = ExampleProviderConfig
    /\ env = NoEnvironment
    /\ presp = ProviderConfigure(ExampleProviderConfig, NoEnvironment, TRUE)
    /\ client = ConfigureClient(NoClient, ProviderDataOf(rtype, presp)).client

Next ==
    \/ TfCreate
    \/ TfUpdate
    \/ TfReplace
    \/ TfRead
    \/ TfDelete
    \/ TfImport
    \/ TfForget
    \/ RemoteChange
    \/ RemoteRemove

Spec == Init /\ [][Next]_vars

-----------------------------------------------------------------------------
\* The data sources. A data source Read builds its state from the API's
\* answer alone; the answer of a list call is a sequence in the API's order.

ProviderTypeName == "victoriametricscloud"

CloudProvidersDataSource == "cloudProvidersDataSource"
RegionsDataSource == "regionsDataSource"
TiersDataSource == "tiersDataSource"
DeploymentDataSource == "deploymentDataSource"
DeploymentsDataSource == "deploymentsDataSource"

\* victoriametricsCloudProvider.DataSources and .Resources, in their order.
DataSources ==
    <<CloudProvidersDataSource, RegionsDataSource, TiersDataSource,
      DeploymentDataSource, DeploymentsDataSource>>
Resources == <<Deployment, AccessToken, RuleFile>>

\* Metadata: the type name is the provider's type name and a suffix.
\* (The variant gives the deployments data source the suffix of deployment.)
TypeNameSuffixMutant(t) ==
    CASE t = CloudProvidersDataSource -> "_cloud_providers"
      [] t = RegionsDataSource -> "_regions"
      [] t = TiersDataSource -> "_tiers"
      [] t = DeploymentDataSource -> "_deployment"
      [] t = DeploymentsDataSource -> "_deployment"
      [] t = Deployment -> "_deployment"
      [] t = AccessToken -> "_access_token"
      [] t = RuleFile -> "_rule_file"
TypeNameSuffix(t) ==
    CASE t = CloudProvidersDataSource -> "_cloud_providers"
      [] t = RegionsDataSource -> "_regions"
      [] t = TiersDataSource -> "_tiers"
      [] t = DeploymentDataSource -> "_deployment"
      [] t = DeploymentsDataSource -> "_deployments"
      [] t = Deployment -> "_deployment"
      [] t = AccessToken -> "_access_token"
      [] t = RuleFile -> "_rule_file"
TypeName(t) == <<ProviderTypeName, TypeNameSuffix(t)>>

\* A state the handler did not set: resp.State is left as the host gave it.
NotSet == [k |-> "notset"]

\* append over a response: a nil slice stays nil, and is a null list in state,
\* when nothing is appended.
AppendAllMutant(slice, entries) ==
    IF entries = <<>> THEN slice
    ELSE ListValue(slice.v \o SubSeq(entries, 1, Len(entries) - 1))
AppendAll(slice, entries) ==
    IF entries = <<>> THEN slice ELSE ListValue(slice.v \o entries)

cloudProviderModel(provider) ==
    [id |-> StringValue(provider.ID), url |-> StringValue(provider.URL)]

CloudProvidersRead(providers, ok) ==
    IF ~ok
    THEN Result(NotSet, remote, nextId, <<[method |-> "ListCloudProviders"]>>,
                <<"Unable to Read Cloud Providers">>)
    ELSE Result([cloud_providers |->
                    AppendAll(ListNull, [i \in 1..Len(providers) |->
                                            cloudProviderModel(providers[i])])],
                remote, nextId,
                <<[method |-> "ListCloudProviders", response |-> providers]>>, NoDiags)

regionModel(region) ==
    [name |-> StringValue(region.Name),
     cloud_provider |-> StringValue(region.CloudProvider)]

RegionsRead(regions, ok) ==
    IF ~ok
    THEN Result(NotSet, remote, nextId, <<[method |-> "ListRegions"]>>,
                <<"Unable to Read Regions">>)
    ELSE Result([regions |->
                    AppendAll(ListNull, [i \in 1..Len(regions) |->
                                            regionModel(regions[i])])],
                remote, nextId,
                <<[method |-> "ListRegions", response |-> regions]>>, NoDiags)

tierModel(tier) ==
    [id |-> Int64Value(Int64(tier.ID)),
     type |-> StringValue(tier.Type),
     cloud_provider |-> StringValue(tier.CloudProvider),
     name |-> StringValue(tier.Name),
     compute_cost_per_hour |-> tier.ComputeCostPerHour,
     ingestion_rate |-> Int64Value(Int64(tier.IngestionRate)),
     active_time_series |-> Int64Value(Int64(tier.ActiveTimeSeries)),
     new_series_over_24h |-> Int64Value(Int64(tier.NewSeriesOver24h)),
     datapoints_read_rate |-> Int64Value(Int64(tier.DatapointsReadRate)),
     series_read_per_query |-> Int64Value(Int64(tier.SeriesReadPerQuery)),
     access_token_concurrent_requests |->
         Int64Value(Int64(tier.AccessTokenConcurrentRequests))]

TiersRead(tiers, ok) ==
    IF ~ok
    THEN Result(NotSet, remote, nextId, <<[method |-> "ListTiers"]>>,
                <<"Unable to Read Tiers">>)
    ELSE Result([tiers |->
                    AppendAll(ListNull, [i \in 1..Len(tiers) |-> tierModel(tiers[i])])],
                remote, nextId,
                <<[method |-> "ListTiers", response |-> tiers]>>, NoDiags)

deploymentSummaryModel(deployment) ==
    [id |-> StringValue(deployment.ID),
     name |-> StringValue(deployment.Name),
     type |-> StringValue(deployment.Type),
     tier |-> Int64Value(Int64(deployment.Tier)),
     version |-> StringValue(deployment.Version),
     cloud_provider |-> StringValue(deployment.CloudProvider),
     region |-> StringValue(deployment.Region),
     status |-> StringValue(deployment.Status),
     created_at |-> StringValue(FormatRFC3339(deployment.CreatedAt))]

\* state.Deployments starts as an empty slice, not a nil one.
DeploymentsRead(deployments, ok) ==
    IF ~ok
    THEN Result(NotSet, remote, nextId, <<[method |-> "ListDeployments"]>>,
                <<"Unable to Read Deployments">>)
    ELSE Result([deployments |->
                    AppendAll(ListValue(<<>>),
                              [i \in 1..Len(deployments) |->
                                  deploymentSummaryModel(deployments[i])])],
                remote, nextId,
                <<[method |-> "ListDeployments", response |-> deployments]>>, NoDiags)

\* The price the API quotes for a deployment.
PriceOf(d) == [ComputeCost |-> "0.25", StorageCost |-> "0.05", TotalCost |-> "0.30"]

\* The client call of the deployment data source; the variant took the call
\* of the resource's Delete.
DeploymentDataCallMutant(id) == [method |-> "DeleteDeployment", deploymentID |-> id]
DeploymentDataCall(id) == [method |-> "GetDeploymentDetails", deploymentID |-> id]

\* config: the data source's configuration, id alone.
DeploymentDataRead(config, ok) ==
    LET id == ValueString(config.id)
        calls == <<DeploymentDataCall(id)>>
    IN  IF ~ok \/ Having(remote, id) = {}
        THEN Result(NotSet, remote, nextId, calls, <<"Unable to Read Deployment">>)
        ELSE LET d == Lookup(remote, id)
             IN Result([id |-> config.id,
                        name |-> StringValue(d.Name),
                        type |-> StringValue(d.Type),
                        cloud_provider |-> StringValue(d.CloudProvider),
                        region |-> StringValue(d.Region),
                        tier |-> Int64Value(Int64(d.Tier)),
                        retention |-> Int64Value(Int64(d.RetentionValue)),
                        retention_unit |-> StringValue(d.RetentionUnit),
                        deduplication |-> Int64Value(Int64(d.DeduplicationValue)),
                        deduplication_unit |-> StringValue(d.DeduplicationUnit),
                        maintenance_window |-> StringValue(d.MaintenanceWindow),
                        version |-> StringValue(d.Version),
                        status |-> StringValue(d.Status),
                        created_at |-> StringValue(FormatRFC3339(d.CreatedAt)),
                        access_endpoint |-> StringValue(d.AccessEndpoint),
                        storage_size_gb |-> Int64Value(Int64(d.StorageSizeGb)),
                        compute_cost |-> PriceOf(d).ComputeCost,
                        storage_cost |-> PriceOf(d).StorageCost,
                        total_cost |-> PriceOf(d).TotalCost],
                       remote, nextId, calls, NoDiags)

\* The answers of the catalog's list calls.
Aws == [ID |-> Str("aws"), URL |-> Str("https://aws.amazon.com")]
Gcp == [ID |-> Str("gcp"), URL |-> Str("https://cloud.google.com")]
CloudProviderLists == {<<>>, <<Aws>>, <<Aws, Gcp>>, <<Gcp, Aws>>, <<Aws, Aws>>}

EuWest1 == [Name |-> Str("eu-west-1"), CloudProvider |-> Str("aws")]
UsEast1 == [Name |-> Str("us-east-1"), CloudProvider |-> Str("aws")]
RegionLists == {<<>>, <<EuWest1>>, <<EuWest1, UsEast1>>, <<UsEast1, EuWest1>>,
                <<EuWest1, EuWest1>>}

Tier21 ==
    [ID |-> I64(21), Type |-> Str("single_node"), CloudProvider |-> Str("aws"),
     Name |-> Str("s.starter.a"), ComputeCostPerHour |-> "0.25",
     IngestionRate |-> I64(2000), ActiveTimeSeries |-> I64(10000),
     NewSeriesOver24h |-> I64(5000), DatapointsReadRate |-> I64(3000),
     SeriesReadPerQuery |-> I64(1000), AccessTokenConcurrentRequests |-> I64(8)]
Tier22 == [Tier21 EXCEPT !.ID = I64(22), !.Name = Str("s.small.a")]
TierLists == {<<>>, <<Tier21>>, <<Tier21, Tier22>>, <<Tier22, Tier21>>,
              <<Tier21, Tier21>>}

\* ListDeployments: the remote deployments, in an order of the API's choosing.
DeploymentLists ==
    {l \in [1..Cardinality(remote) -> remote] :
        \A d \in remote : \E i \in 1..Cardinality(remote) : l[i] = d}

\* The deployments made at the remote console.
ConsoleDeployments == {SingleDemo, [SingleDemo EXCEPT !.type = StringValue(Str("cluster"))]}

\* The ids a deployment data source is configured with.
DeploymentDataConfigs == {[id |-> StringValue(IdOf(n))] : n \in 0..MaxIds}

\* The host keeps the state it had when Read set none.
ApplyData(r) ==
    /\ state' = IF r.state = NotSet THEN state ELSE r.state
    /\ remote' = r.remote
    /\ nextId' = r.nextId
    /\ last' = Last("DataRead", <<"Read">>, r.calls, r.diags)

\* terraform plan or refresh: Read of the data source.
DataRead ==
    /\ \E ok \in BOOLEAN :
         \/ /\ rtype = CloudProvidersDataSource
            /\ \E l \in CloudProviderLists : ApplyData(CloudProvidersRead(l, ok))
         \/ /\ rtype = RegionsDataSource
            /\ \E l \in RegionLists : ApplyData(RegionsRead(l, ok))
         \/ /\ rtype = TiersDataSource
            /\ \E l \in TierLists : ApplyData(TiersRead(l, ok))
         \/ /\ rtype = DeploymentsDataSource
            /\ \E l \in DeploymentLists : ApplyData(DeploymentsRead(l, ok))
         \/ /\ rtype = DeploymentDataSource
            /\ \E c \in DeploymentDataConfigs : ApplyData(DeploymentDataRead(c, ok))
    /\ UNCHANGED <<rtype, pconfig, env, presp, client>>

\* The remote console: a deployment is made outside Terraform.
ConsoleCreate ==
    /\ rtype \in {DeploymentDataSource, DeploymentsDataSource}
    /\ nextId <= MaxIds
    /\ \E cfg \in ConsoleDeployments :
         remote' = remote \cup {NewDeployment(DeploymentCreationRequest(cfg), nextId)}
    /\ nextId' = nextId + 1
    /\ last' = Last("Remote", <<>>, NoCalls, NoDiags)
    /\ UNCHANGED <<rtype, state, pconfig, env, presp, client>>

InitData ==
    /\ rtype \in {DataSources[i] : i \in 1..Len(DataSources)}
    /\ state = Absent
    /\ remote = {}
    /\ nextId = 0
    /\ last = Last("None", <<>>, NoCalls, NoDiags)
    /\ pconfig = ExampleProviderConfig
    /\ env = NoEnvironment
    /\ presp = ProviderConfigure(ExampleProviderConfig, NoEnvironment, TRUE)
    /\ client = ConfigureClient(NoClient, ProviderDataOf(rtype, presp)).client

NextData ==
    \/ DataRead
    \/ ConsoleCreate
    \/ RemoteRemove

SpecData == InitData /\ [][NextData]_vars

-----------------------------------------------------------------------------
\* The provider's Configure step on its own: every provider block and
\* environment, and vmcloudapi.New succeeding or not.

ProviderConfigs ==
    [api_key : {StringNull, StringUnknown, StringValue(Empty), StringValue(Str("key"))},
     base_url : {StringNull, StringValue(Empty), StringValue(Str("https://api.example"))}]

Environments ==
    [VMCLOUD_API_KEY : {Empty, Str("envkey")},
     VMCLOUD_BASE_URL : {Empty, Str("https://env.example")}]

PConfigure ==
    /\ presp = NotRun
    /\ \E newOk \in BOOLEAN : presp' = ProviderConfigure(pconfig, env, newOk)
    /\ UNCHANGED <<rtype, state, remote, nextId, last, pconfig, env, client>>

\* The host configures the resource or data source: before the provider's
\* Configure it has no provider data to give.
RConfigure ==
    /\ client' = ConfigureClient(client, ProviderDataOf(rtype, presp)).client
    /\ last' = Last("Configure", <<"Configure">>, NoCalls,
                    ConfigureClient(client, ProviderDataOf(rtype, presp)).diags)
    /\ UNCHANGED <<rtype, state, remote, nextId, pconfig, env, presp>>

InitProvider ==
    /\ rtype \in ResourceTypes \cup {DataSources[i] : i \in 1..Len(DataSources)}
    /\ state = Absent
    /\ remote = {}
    /\ nextId = 0
    /\ last = Last("None", <<>>, NoCalls, NoDiags)
    /\ pconfig \in ProviderConfigs
    /\ env \in Environments
    /\ presp = NotRun
    /\ client = NoClient

NextProvider ==
    \/ PConfigure
    \/ RConfigure

SpecProvider == InitProvider /\ [][NextProvider]_vars

\* Configure of a resource or data source on its own, handed any provider
\* data: nil, a client, or a value of another type.
OtherProviderData == [k |-> "other"]
ProviderDatas ==
    {NoClient, OtherProviderData, NewClient(Str("key"), <<>>),
     NewClient(Str("envkey"), <<[WithBaseURL |-> Str("https://api.example")]>>)}

HostProvides ==
    /\ \E rd \in ProviderDatas, dd \in ProviderDatas :
         presp' = [DataSourceData |-> dd, ResourceData |-> rd, diags |-> NoDiags]
    /\ last' = Last("Provide", <<>>, NoCalls, NoDiags)
    /\ UNCHANGED <<rtype, state, remote, nextId, pconfig, env, client>>

InitConfigure ==
    /\ rtype \in ResourceTypes \cup {DataSources[i] : i \in 1..Len(DataSources)}
    /\ state = Absent
    /\ remote = {}
    /\ nextId = 0
    /\ last = Last("None", <<>>, NoCalls, NoDiags)
    /\ pconfig = ExampleProviderConfig
    /\ env = NoEnvironment
    /\ presp = NotRun
    /\ client = NoClient

NextConfigure ==
    \/ HostProvides
    \/ RConfigure

SpecConfigure == InitConfigure /\ [][NextConfigure]_vars

-----------------------------------------------------------------------------
\* Resources and data sources together: the instance the host works on is a
\* resource or a data source, and the host runs the operations of its kind.

InitAll == Init \/ InitData

NextAll ==
    \/ rtype \in ResourceTypes /\ Next
    \/ rtype \notin ResourceTypes /\ NextData

SpecAll == InitAll /\ [][NextAll]_vars

-----------------------------------------------------------------------------
\* Properties.

Succeeded == ~HasError(last.diags)
Reported(diags, summary) == \E i \in 1..Len(diags) : diags[i] = summary

\* C1: an access token is immutable after creation: every change of a
\* configured attribute of an existing token is applied as a replacement
\* (Delete, then Create) and never through the Update handler.
C1_AccessTokenChangeReplaces ==
    (rtype = AccessToken /\ last.op \in {"Update", "Replace"})
        => last.handlers = <<"Delete", "Create">>

\* C2: after a successful deployment Create, every configured attribute in
\* state was sent in the create request and equals the remote value; the four
\* flag lists included.
C2_CreateSendsConfiguredAttributes ==
    (rtype = Deployment /\ last.op = "Create" /\ Succeeded) =>
        LET req == last.calls[1].request
            d == Lookup(remote, ValueString(state.id))
        IN /\ state.name = StringValue(req.Name) /\ req.Name = d.Name
           /\ state.type = StringValue(req.Type) /\ req.Type = d.Type
           /\ state.cloud_provider = StringValue(req.Provider)
           /\ state.region = StringValue(req.Region)
           /\ \A a \in {"single_flags", "select_flags", "storage_flags", "insert_flags"} :
                ~IsNull(state[a]) =>
                    /\ "Flags" \in DOMAIN req
                    /\ LET f == CASE a = "single_flags" -> "SingleFlags"
                                  [] a = "select_flags" -> "SelectFlags"
                                  [] a = "storage_flags" -> "StorageFlags"
                                  [] a = "insert_flags" -> "InsertFlags"
                       IN /\ req.Flags[f] = Elements(state[a])
                          /\ d.Flags[f] = Elements(state[a])

\* C3: after a successful deployment Update, type, cloud_provider and region
\* in state equal the remote deployment's.
C3_UpdateStateEqualsRemote ==
    (rtype = Deployment /\ last.op = "Update" /\ Succeeded) =>
        LET d == Lookup(remote, ValueString(state.id))
        IN /\ state.type = StringValue(d.Type)
           /\ state.cloud_provider = StringValue(d.CloudProvider)
           /\ state.region = StringValue(d.Region)

\* C4: a rule file's key is immutable and its content mutable: id is always
\* deployment_id "/" file_name; Read and Update leave deployment_id, file_name
\* and id as they were; and a configuration that changes deployment_id or
\* file_name is planned as a replacement, any other change as an update.
RuleFileKeyOf(st) == <<st.deployment_id, st.file_name, st.id>>
C4_RuleFileKeyImmutable ==
    [][rtype = RuleFile =>
        /\ state' # Absent =>
             state'.id = StringValue(ValueString(state'.deployment_id) \o Slash
                                        \o ValueString(state'.file_name))
        /\ (state # Absent /\ last'.op \in {"Read", "Update"}) =>
             /\ state' # Absent
             /\ RuleFileKeyOf(state') = RuleFileKeyOf(state)
        /\ state # Absent =>
             \A cfg \in RuleFileConfigs :
                LET changed == {a \in {"deployment_id", "file_name", "content"} :
                                    cfg[a] # state[a]}
                    planned == PlannedAction(SchemaOf(rtype), cfg, state)
                IN /\ changed \cap {"deployment_id", "file_name"} # {}
                        => planned = "replace"
                   /\ changed = {"content"} => planned = "update"
      ]_vars
C4_Witness ==
    /\ rtype = RuleFile
    /\ last.op = "Update"
    /\ Succeeded
    /\ state.content = StringValue(Str("groups: [a]"))
    /\ state.id = StringValue(<<"dep1", "/", "recording_rules.yaml">>)


\* An operation run a second time with the input of the first, on what the
\* first left: the same state and the same remote resources?
SameOutcome(r1, r2) == r2.state = r1.state /\ r2.remote = r1.remote

CreateTwice(t, cfg, ok) ==
    LET plan == PlanOf(SchemaOf(t), cfg, Absent)
        r1 == CreateOf(t, plan, remote, nextId, ok)
    IN SameOutcome(r1, CreateOf(t, plan, r1.remote, r1.nextId, ok))

ReadTwice(t, ok) ==
    LET r1 == ReadOf(t, state, remote, nextId, ok)
    IN SameOutcome(r1, ReadOf(t, r1.state, r1.remote, r1.nextId, ok))

UpdateTwice(t, cfg, ok) ==
    LET plan == PlanOf(SchemaOf(t), cfg, state)
        r1 == UpdateOf(t, plan, state, remote, nextId, ok)
    IN SameOutcome(r1, UpdateOf(t, plan, r1.state, r1.remote, r1.nextId, ok))

DeleteTwiceRemote(t, ok) ==
    LET r1 == DeleteOf(t, state, remote, nextId, ok)
    IN DeleteOf(t, state, r1.remote, r1.nextId, ok).remote = r1.remote

DeleteTwice(t, ok) ==
    LET r1 == DeleteOf(t, state, remote, nextId, ok)
    IN SameOutcome(r1, DeleteOf(t, state, r1.remote, r1.nextId, ok))

UpdatesOf(t) == {cfg \in ConfigsOf(t) : PlannedAction(SchemaOf(t), cfg, state) = "update"}

\* C5 as claimed: for each resource type every operation is idempotent: run
\* twice with the same input it leaves the remote resources and the state as
\* they were after the first run.
C5_EveryOperationIdempotent ==
    /\ \A cfg \in ConfigsOf(rtype) : CreateTwice(rtype, cfg, TRUE)
    /\ state # Absent =>
         /\ ReadTwice(rtype, TRUE)
         /\ \A cfg \in UpdatesOf(rtype) : UpdateTwice(rtype, cfg, TRUE)
         /\ DeleteTwice(rtype, TRUE)

\* C5 amended: Read and Update of each resource type and Create of a rule
\* file are idempotent in state and remote resources, whether the API accepts
\* or refuses the call; a second Delete changes no remote resource; a second
\* successful Create of a deployment or of an access token makes one more
\* remote resource, under a new id.
C5_IdempotentOperations ==
    \A ok \in BOOLEAN :
        /\ \A cfg \in RuleFileConfigs :
             rtype = RuleFile => CreateTwice(RuleFile, cfg, ok)
        /\ \A cfg \in ConfigsOf(rtype) :
             rtype # RuleFile =>
                LET plan == PlanOf(SchemaOf(rtype), cfg, Absent)
                    r1 == CreateOf(rtype, plan, remote, nextId, TRUE)
                    r2 == CreateOf(rtype, plan, r1.remote, r1.nextId, TRUE)
                IN /\ Cardinality(r2.remote) = Cardinality(r1.remote) + 1
                   /\ r2.state.id # r1.state.id
        /\ state # Absent =>
             /\ ReadTwice(rtype, ok)
             /\ \A cfg \in UpdatesOf(rtype) : UpdateTwice(rtype, cfg, ok)
             /\ DeleteTwiceRemote(rtype, ok)
C5_Witness ==
    /\ rtype = RuleFile
    /\ last.op = "Create"
    /\ Succeeded
    /\ \E r \in remote : r.key = <<Str("dep1"), Str("recording_rules.yaml")>>
    /\ UpdatesOf(RuleFile) # {}

\* C6: whenever VMCLOUD_API_KEY is set to a non-empty value, Configure does
\* not report a missing API key, whatever the api_key attribute holds.
C6_EnvironmentKeySuffices ==
    (presp # NotRun /\ env.VMCLOUD_API_KEY # Empty)
        => ~Reported(presp.diags, "Missing API Key Configuration")

\* C7 as claimed: every Create and every Update of every resource issues the
\* API call; none is rejected locally.
C7_NoLocalRejection ==
    last.op \in {"Create", "Update"} => Len(last.calls) = 1

\* C7 amended: Create of each resource and Update of a rule file issue their
\* API call for every combination of attribute values; Update of a deployment
\* issues it unless a flag list holds an element that is null, which is
\* reported as a conversion error; Update of an access token issues no call
\* and reports 'Update not supported'.
C7_LocalRejections ==
    /\ \A cfg \in ConfigsOf(rtype), ok \in BOOLEAN :
         Len(CreateOf(rtype, PlanOf(SchemaOf(rtype), cfg, Absent),
                      remote, nextId, ok).calls) = 1
    /\ (last.op = "Create" \/ (last.op = "Update" /\ rtype = RuleFile))
         => Len(last.calls) = 1
    /\ (last.op = "Update" /\ rtype = Deployment) =>
         IF Reported(last.diags, "Value Conversion Error")
         THEN last.calls = NoCalls
         ELSE Len(last.calls) = 1 /\ last.calls[1].method = "UpdateDeployment"
    /\ (last.op = "Update" /\ rtype = AccessToken) =>
         last.calls = NoCalls /\ last.diags = <<"Update not supported">>
    /\ state # Absent =>
         \A cfg \in UpdatesOf(rtype), ok \in BOOLEAN :
            LET plan == PlanOf(SchemaOf(rtype), cfg, state)
                r == UpdateOf(rtype, plan, state, remote, nextId, ok)
                flagsOk == \A a \in {"single_flags", "select_flags",
                                     "storage_flags", "insert_flags"} :
                              IsNull(plan[a]) \/ ElementsOk(plan[a])
            IN Len(r.calls) = IF rtype = AccessToken \/ (rtype = Deployment /\ ~flagsOk)
                              THEN 0 ELSE 1
C7_Witness ==
    /\ rtype = AccessToken
    /\ last.op = "Create"
    /\ Succeeded
    /\ state.type = StringValue(Str("admin"))
    /\ last.calls[1].request.Type = Str("admin")


\* The request of the last Create or Update of a deployment.
LastRequest == last.calls[Len(last.calls)].request

\* C8: the tier, retention, deduplication and storage_size a create or update
\* request carries are the numbers the configuration gives.
C8_NumbersPassUnchanged ==
    (rtype = Deployment /\ last.op \in {"Create", "Update"} /\ Succeeded) =>
        /\ SameNumber(ValueInt64(state.tier), LastRequest.Tier)
        /\ SameNumber(ValueInt64(state.retention), LastRequest.Retention)
        /\ SameNumber(ValueInt64(state.deduplication), LastRequest.Deduplication)
        /\ SameNumber(ValueInt64(state.storage_size), LastRequest.StorageSize)

\* q is u / 1024 rounded down: u is q * 1024 plus a remainder below 1024.
IsQuotientBy1024(q, u) ==
    /\ q[4] < 1024
    /\ \E r \in 0..1023 : u = [Mul1024(q) EXCEPT ![1] = @ + r]

\* C9: a successful Read of a deployment sets storage_size, as a 64-bit
\* integer, to the remote StorageSizeGb when storage_size_unit is "GB" and to
\* StorageSizeGb / 1024 rounded down when it is "TB", and leaves it as it was
\* when storage_size_unit is null or another string (as it is on import,
\* where ImportState leaves both null).
C9_ReadConvertsStorageSize ==
    [][(rtype = Deployment /\ last'.op \in {"Read", "Import"} /\ ~HasError(last'.diags)) =>
        LET d == Lookup(remote, ValueString(state'.id))
            unit == IF state = Absent THEN StringNull ELSE state.storage_size_unit
            old == IF state = Absent THEN Int64Null ELSE state.storage_size
        IN /\ state'.storage_size_unit = unit
           /\ unit = StringValue(Str("GB")) =>
                state'.storage_size = Int64Value(d.StorageSizeGb)
           /\ unit = StringValue(Str("TB")) =>
                /\ state'.storage_size.k = "value"
                /\ IsQuotientBy1024(state'.storage_size.v, d.StorageSizeGb)
           /\ unit \notin {StringValue(Str("GB")), StringValue(Str("TB"))} =>
                state'.storage_size = old
      ]_vars
C9_Witness ==
    /\ rtype = Deployment
    /\ last.op = "Read"
    /\ Succeeded
    /\ state.storage_size_unit = StringValue(Str("TB"))
    /\ Lookup(remote, ValueString(state.id)).StorageSizeGb = I64(2000)
    /\ state.storage_size = Int64Value(I64(1))

\* C10: storage size round-trips: when, after a successful Create or Update
\* with storage_size n and unit GB or TB, the remote holds n GB (unit GB) or
\* n * 1024 GB (unit TB), a successful Read leaves storage_size and
\* storage_size_unit as they are; and when the unit is TB and the remote size
\* is no multiple of 1024, the storage_size a Read stores, times 1024, is not
\* the remote size.
C10_StorageSizeRoundTrips ==
    [][(rtype = Deployment /\ state # Absent /\ last'.op = "Read" /\ ~HasError(last'.diags)) =>
        LET d == Lookup(remote, ValueString(state.id))
            n == ValueInt64(state.storage_size)
            unit == state.storage_size_unit
        IN /\ ( /\ last.op \in {"Create", "Update"} /\ Succeeded
                /\ \/ unit = StringValue(Str("GB")) /\ SameNumber(n, d.StorageSizeGb)
                   \/ /\ unit = StringValue(Str("TB"))
                      /\ ~IsNegative64(n) /\ n[4] < 1024
                      /\ d.StorageSizeGb = Mul1024(n) )
              => /\ state'.storage_size = state.storage_size
                 /\ state'.storage_size_unit = state.storage_size_unit
           /\ (unit = StringValue(Str("TB")) /\ d.StorageSizeGb[1] % 1024 # 0)
              => /\ Mul1024(ValueInt64(state'.storage_size)) # d.StorageSizeGb
                 /\ IsQuotientBy1024(ValueInt64(state'.storage_size), d.StorageSizeGb)
      ]_vars
C10_Witness ==
    /\ rtype = Deployment
    /\ last.op = "Read"
    /\ Succeeded
    /\ state.storage_size_unit = StringValue(Str("TB"))
    /\ state.storage_size = Int64Value(I64(2))
    /\ Lookup(remote, ValueString(state.id)).StorageSizeGb = I64(2048)

\* C11: the id Create stored for a rule file, handed to ImportState, is
\* accepted and gives deployment_id, file_name and id as Create stored them.
C11_RuleFileIdRoundTrips ==
    (rtype = RuleFile /\ last.op = "Create" /\ Succeeded) =>
        LET i == RuleFileImportState(ValueString(state.id), remote, nextId)
        IN /\ ~HasError(i.diags)
           /\ i.state.deployment_id = state.deployment_id
           /\ i.state.file_name = state.file_name
           /\ i.state.id = state.id

\* The slashes of an import id, by position.
SlashesOf(id) == {i \in 1..Len(id) : id[i] = "/"}

\* Two non-empty parts: one slash, neither first nor last.
TwoNonEmptyParts(id) ==
    /\ Cardinality(SlashesOf(id)) = 1
    /\ 1 \notin SlashesOf(id)
    /\ Len(id) \notin SlashesOf(id)

\* C12: ImportState of a rule file and of an access token accepts an import
\* id exactly when it splits on "/" into two non-empty parts, which it then
\* stores; for every other id it reports 'Invalid Import ID' and sets no
\* attribute.
C12_ImportIdAccepted ==
    /\ \A t \in {RuleFile, AccessToken} : \A id \in ImportIDs(t) :
         LET i == ImportStateOf(t, id, remote, nextId)
         IN IF TwoNonEmptyParts(id)
            THEN /\ i.diags = NoDiags
                 /\ i.state # Absent
                 /\ ValueString(i.state.deployment_id) \o Slash
                        \o ValueString(IF t = RuleFile THEN i.state.file_name
                                       ELSE i.state.id) = id
            ELSE i.diags = <<"Invalid Import ID">> /\ i.state = Absent
    /\ (rtype \in {RuleFile, AccessToken} /\ last.op = "Import"
            /\ Reported(last.diags, "Invalid Import ID"))
         => state = Absent /\ last.calls = NoCalls
C12_Witness ==
    /\ rtype = RuleFile
    /\ last.op = "Import"
    /\ last.handlers = <<"ImportState">>
    /\ last.diags = <<"Invalid Import ID">>
    /\ state = Absent
    /\ \E r \in remote : r.key = <<Str("dep1"), Str("rules") \o Slash \o Str("alerts.yaml")>>

\* The list attribute of a listing data source's state, and the call it makes.
ListOf(t, st) ==
    CASE t = CloudProvidersDataSource -> st.cloud_providers
      [] t = RegionsDataSource -> st.regions
      [] t = TiersDataSource -> st.tiers
      [] t = DeploymentsDataSource -> st.deployments
ListCallOf(t) ==
    CASE t = CloudProvidersDataSource -> "ListCloudProviders"
      [] t = RegionsDataSource -> "ListRegions"
      [] t = TiersDataSource -> "ListTiers"
      [] t = DeploymentsDataSource -> "ListDeployments"
ListingDataSources ==
    {CloudProvidersDataSource, RegionsDataSource, TiersDataSource, DeploymentsDataSource}

\* The state entry e shows the returned element x.
EntryOf(t, e, x) ==
    CASE t = CloudProvidersDataSource ->
            e.id = StringValue(x.ID) /\ e.url = StringValue(x.URL)
      [] t = RegionsDataSource ->
            e.name = StringValue(x.Name) /\ e.cloud_provider = StringValue(x.CloudProvider)
      [] t = TiersDataSource ->
            e.id = Int64Value(x.ID) /\ e.name = StringValue(x.Name)
      [] t = DeploymentsDataSource ->
            e.id = StringValue(x.ID) /\ e.name = StringValue(x.Name)
               /\ e.type = StringValue(x.Type)

\* C13: a successful Read of the cloud_providers, regions, tiers or
\* deployments data source makes exactly one list call and leaves a state list
\* with one entry per returned element, in the returned order, whatever the
\* state held before.
C13_ListsSourcedFresh ==
    (rtype \in ListingDataSources /\ last.op = "DataRead") =>
        /\ Len(last.calls) = 1
        /\ last.calls[1].method = ListCallOf(rtype)
        /\ Succeeded =>
             LET returned == last.calls[1].response
                 list == ListOf(rtype, state)
             IN /\ Len(list.v) = Len(returned)
                /\ \A i \in 1..Len(returned) : EntryOf(rtype, list.v[i], returned[i])
C13_Witness ==
    /\ rtype = TiersDataSource
    /\ last.op = "DataRead"
    /\ Succeeded
    /\ last.calls[1].response = <<Tier22, Tier21>>
    /\ Len(state.tiers.v) = 2
    /\ state.tiers.v[1].id = Int64Value(I64(22))

\* C14: a Read of any of the five data sources calls a list or get method
\* only and leaves the remote resources as they were.
C14_DataSourcesReadOnly ==
    [][last'.op = "DataRead" =>
          /\ remote' = remote
          /\ \A i \in 1..Len(last'.calls) :
               last'.calls[i].method \in
                   {"ListCloudProviders", "ListRegions", "ListTiers",
                    "ListDeployments", "GetDeploymentDetails"}]_vars
C14_Witness ==
    /\ rtype = DeploymentDataSource
    /\ last.op = "DataRead"
    /\ Succeeded
    /\ remote # {}
    /\ state.id = StringValue(IdOf(0))
    /\ state.storage_size_gb = Int64Value(I64(20))

\* C15: provider Configure publishes one client as ResourceData and as
\* DataSourceData exactly when it ends without an error, and neither when the
\* API key is missing or the client cannot be built; a resource or data source
\* configured afterwards holds that client, and none holds another.
C15_OneSharedClient ==
    /\ [](presp # NotRun =>
            /\ presp.ResourceData = presp.DataSourceData
            /\ ~HasError(presp.diags) <=> presp.ResourceData.k = "client"
            /\ HasError(presp.diags) =>
                 presp.ResourceData = NoClient /\ presp.DataSourceData = NoClient
            /\ (Reported(presp.diags, "Missing API Key Configuration")
                  \/ Reported(presp.diags,
                              "Unable to Create VictoriaMetrics Cloud API Client"))
                 <=> presp.ResourceData = NoClient)
    /\ [](client # NoClient => presp # NotRun /\ client = presp.ResourceData)
    /\ [][(last'.op = "Configure" /\ presp # NotRun /\ ~HasError(presp.diags)) =>
            client' = presp.DataSourceData /\ client'.k = "client"]_vars
C15_Witness ==
    /\ rtype = TiersDataSource
    /\ last.op = "Configure"
    /\ presp # NotRun
    /\ client.k = "client"
    /\ client = presp.DataSourceData
    /\ client.apiKey = Str("envkey")

\* The remote resource a state stands for, as a set: empty when it is gone.
RemoteOf(t, st, rem) ==
    CASE t = Deployment -> Having(rem, ValueString(st.id))
      [] t = AccessToken ->
            Having(rem, <<ValueString(st.deployment_id), ValueString(st.id)>>)
      [] t = RuleFile ->
            Having(rem, <<ValueString(st.deployment_id), ValueString(st.file_name)>>)

\* C16: Delete of each resource type makes one delete call; when the API
\* deletes the resource Delete reports no error and the resource leaves the
\* state; when the API call fails Delete reports one error and the state keeps
\* the resource with every attribute as it was.
C16_DeleteRemovesStateOnSuccess ==
    [][(last'.op = "Delete") =>
          /\ Len(last'.calls) = 1
          /\ IF HasError(last'.diags)
             THEN /\ Len(last'.diags) = 1
                  /\ state' = state
                  /\ remote' = remote
             ELSE /\ state' = Absent
                  /\ RemoteOf(rtype, state, remote) # {}
                  /\ remote' = remote \ RemoteOf(rtype, state, remote)
          /\ RemoteOf(rtype, state, remote) = {} => HasError(last'.diags)
          /\ \A ok \in BOOLEAN :
               LET r == DeleteOf(rtype, state, remote, nextId, ok)
               IN /\ ~ok => HasError(r.diags) /\ r.state = state
                  /\ (ok /\ RemoteOf(rtype, state, remote) # {}) =>
                        r.diags = NoDiags /\ r.state = Absent]_vars
C16_Witness ==
    /\ rtype = Deployment
    /\ last.op = "Delete"
    /\ last.diags = <<"Error deleting deployment">>
    /\ state # Absent
    /\ RemoteOf(Deployment, state, remote) # {}

\* C17: the secret of an access token holds no value before Create (it is
\* unknown in the plan) nor after ImportState alone (it is null); after every
\* successful Create, and every successful Read, a Read that follows
\* ImportState included, it is the secret the API holds for that token.
C17_SecretAfterCreateOrRead ==
    rtype = AccessToken =>
        /\ \A cfg \in AccessTokenConfigs :
             PlanOf(AccessTokenSchema, cfg, Absent).secret = StringUnknown
        /\ \A id \in ImportIDs(AccessToken) :
             LET i == AccessTokenImportState(id, remote, nextId)
             IN i.state # Absent => i.state.secret = StringNull
        /\ (last.op \in {"Create", "Read", "Import"} /\ Succeeded) =>
             /\ state # Absent
             /\ RemoteOf(AccessToken, state, remote) # {}
             /\ \A token \in RemoteOf(AccessToken, state, remote) :
                  state.secret = StringValue(token.Secret)
C17_Witness ==
    /\ rtype = AccessToken
    /\ last.op = "Import"
    /\ last.handlers = <<"ImportState", "Read">>
    /\ Succeeded
    /\ state.secret = StringValue(Str("secret-") \o IdOf(0))
    /\ last.calls[1].method = "RevealDeploymentAccessToken"

\* The type names of a list of resources or data sources.
TypeNamesOf(list) == {TypeName(list[i]) : i \in 1..Len(list)}

\* C18: the provider exposes exactly the three resources deployment,
\* access_token and rule_file and exactly the five data sources
\* cloud_providers, regions, tiers, deployments and deployment; each type name
\* is the provider's type name followed by the suffix Metadata sets, and no
\* two resources and no two data sources share a type name.
C18_ExposedTypes ==
    /\ Len(Resources) = 3
    /\ TypeNamesOf(Resources) =
         {<<"victoriametricscloud", "_deployment">>,
          <<"victoriametricscloud", "_access_token">>,
          <<"victoriametricscloud", "_rule_file">>}
    /\ Len(DataSources) = 5
    /\ TypeNamesOf(DataSources) =
         {<<"victoriametricscloud", "_cloud_providers">>,
          <<"victoriametricscloud", "_regions">>,
          <<"victoriametricscloud", "_tiers">>,
          <<"victoriametricscloud", "_deployments">>,
          <<"victoriametricscloud", "_deployment">>}
    /\ Cardinality(TypeNamesOf(Resources)) = Len(Resources)
    /\ Cardinality(TypeNamesOf(DataSources)) = Len(DataSources)
    /\ TypeName(rtype)[1] = ProviderTypeName
    /\ rtype \in {Resources[i] : i \in 1..Len(Resources)}
                   \cup {DataSources[i] : i \in 1..Len(DataSources)}
C18_Witness ==
    /\ rtype = DeploymentsDataSource
    /\ TypeName(rtype) = <<"victoriametricscloud", "_deployments">>
    /\ last.op = "Configure"
    /\ client.k = "client"

\* C19: when the API call of a Create, Read or Update of a resource, or of a
\* Read of a data source, returns an error, the operation reports exactly one
\* error and the state stays as it was before (no resource after a failed
\* Create).
C19_StateWrittenOnSuccessOnly ==
    /\ [][(last'.op \in {"Create", "Read", "Update", "DataRead"}
              /\ HasError(last'.diags) /\ Len(last'.calls) = 1) =>
            /\ Len(last'.diags) = 1
            /\ state' = state
            /\ last'.op = "Create" => state' = Absent]_vars
    /\ [](rtype \in ResourceTypes =>
            /\ \A cfg \in ConfigsOf(rtype) :
                 LET r == CreateOf(rtype, PlanOf(SchemaOf(rtype), cfg, Absent),
                                   remote, nextId, FALSE)
                 IN Len(r.diags) = 1 /\ r.state = Absent /\ r.remote = remote
            /\ state # Absent =>
                 /\ LET r == ReadOf(rtype, state, remote, nextId, FALSE)
                    IN Len(r.diags) = 1 /\ r.state = state
                 /\ \A cfg \in UpdatesOf(rtype) :
                      LET r == UpdateOf(rtype, PlanOf(SchemaOf(rtype), cfg, state),
                                        state, remote, nextId, FALSE)
                      IN Len(r.diags) = 1 /\ r.state = state)
    /\ [](rtype \notin ResourceTypes =>
            /\ \A l \in CloudProviderLists : CloudProvidersRead(l, FALSE).state = NotSet
            /\ \A l \in RegionLists : RegionsRead(l, FALSE).state = NotSet
            /\ \A l \in TierLists : TiersRead(l, FALSE).state = NotSet
            /\ \A l \in DeploymentLists : DeploymentsRead(l, FALSE).state = NotSet
            /\ \A c \in DeploymentDataConfigs : DeploymentDataRead(c, FALSE).state = NotSet)
C19_Witness ==
    /\ rtype = RuleFile
    /\ last.op = "Read"
    /\ last.diags = <<"Error Reading Rule File">>
    /\ state # Absent
    /\ state.content = StringValue(Str("groups: [a]"))
    /\ RemoteOf(RuleFile, state, remote) # {}

\* C20: every Update of an access token reports 'Update not supported', makes
\* no API call and leaves the state and the remote token as they were.
C20_AccessTokenUpdateNotSupported ==
    /\ [][(rtype = AccessToken /\ last'.op = "Update") =>
            /\ last'.diags = <<"Update not supported">>
            /\ last'.calls = NoCalls
            /\ state' = state
            /\ remote' = remote]_vars
    /\ []((rtype = AccessToken /\ state # Absent) =>
            \A cfg \in AccessTokenConfigs, ok \in BOOLEAN :
                LET r == AccessTokenUpdate(PlanOf(AccessTokenSchema, cfg, state),
                                           state, remote, nextId, ok)
                IN /\ r.diags = <<"Update not supported">>
                   /\ r.calls = NoCalls
                   /\ r.state = state
                   /\ r.remote = remote)
C20_Witness ==
    /\ rtype = AccessToken
    /\ last.op = "Update"
    /\ last.diags = <<"Update not supported">>
    /\ state # Absent
    /\ state.description = StringValue(Str("Application read-write token"))
    /\ RemoteOf(AccessToken, state, remote) # {}

\* C21: a successful Create or Update of a rule file calls the API with the
\* state's deployment_id and file_name and with the content the state then
\* holds, which the remote then holds too; a successful Read sets content to
\* the remote content and changes nothing else, so it changes nothing when the
\* remote holds the state's content.
C21_RuleFileContentReconciles ==
    [][rtype = RuleFile =>
        /\ (last'.op \in {"Create", "Update"} /\ ~HasError(last'.diags)) =>
             LET call == last'.calls[Len(last'.calls)]
             IN /\ call.deploymentID = ValueString(state'.deployment_id)
                /\ call.fileName = ValueString(state'.file_name)
                /\ state'.content = StringValue(call.content)
                /\ \A f \in RemoteOf(RuleFile, state', remote') :
                     f.Content = call.content
                /\ RemoteOf(RuleFile, state', remote') # {}
        /\ (last'.op = "Read" /\ ~HasError(last'.diags)) =>
             /\ \A f \in RemoteOf(RuleFile, state, remote) :
                  /\ state' = [state EXCEPT !.content = StringValue(f.Content)]
                  /\ state.content = StringValue(f.Content) => state' = state
             /\ RemoteOf(RuleFile, state, remote) # {}
      ]_vars
C21_Witness ==
    /\ rtype = RuleFile
    /\ last.op = "Read"
    /\ Succeeded
    /\ state.content = StringValue(Str("groups: [b]"))
    /\ state.file_name = StringValue(Str("recording_rules.yaml"))
    /\ state.id = StringValue(Str("dep1") \o Slash \o Str("recording_rules.yaml"))

C23_ConfigureOnlyOnValidInput ==
    [][last'.op = "Configure" =>
        LET providerData == IF rtype \in ResourceTypes
                            THEN presp.ResourceData ELSE presp.DataSourceData
        IN  IF presp = NotRun \/ providerData = NoClient
            THEN client' = client /\ last'.diags = NoDiags
            ELSE IF providerData = OtherProviderData
            THEN /\ client' = client
                 /\ Len(last'.diags) = 1
                 /\ HasError(last'.diags)
            ELSE /\ providerData.k = "client"
                 /\ client' = providerData
                 /\ last'.diags = NoDiags
      ]_vars
C23_Witness ==
    /\ last.op = "Configure"
    /\ HasError(last.diags)
    /\ rtype = RegionsDataSource
    /\ presp # NotRun
    /\ presp.DataSourceData = OtherProviderData
    /\ presp.ResourceData = NoClient
    /\ client = NewClient(Str("key"), <<>>)

\* The attributes of the state that hold an unknown value.
UnknownAttrs(st) == {a \in DOMAIN st : IsUnknown(st[a])}

\* C24: after a successful Create or Update of a resource, no attribute of its
\* state is unknown.
C24_NoUnknownAfterApply ==
    (last.op \in {"Create", "Update", "Replace"} /\ Succeeded /\ state # Absent) =>
        UnknownAttrs(state) = {}
\* Create of an access token ended without an error, the API returned the
\* token without LastUsedAt, and the state's last_used_at is unknown.
C24_FailingState ==
    /\ rtype = AccessToken
    /\ last.op = "Create"
    /\ Succeeded
    /\ state # Absent
    /\ \E token \in RemoteOf(AccessToken, state, remote) : token.LastUsedAt = NoTime
    /\ IsUnknown(state.last_used_at)
\* Outside last_used_at of an access token the property holds.
C24_Elsewhere ==
    (last.op \in {"Create", "Update", "Replace"} /\ Succeeded /\ state # Absent) =>
        UnknownAttrs(state) \subseteq 
          (IF rtype = AccessToken THEN {"last_used_at"} ELSE {})

\* The attributes of a deployment a successful Read takes from the remote
\* deployment d one to one.
ReadFromRemote(st, d) ==
    /\ st.name = StringValue(d.Name)
    /\ st.type = StringValue(d.Type)
    /\ st.cloud_provider = StringValue(d.CloudProvider)
    /\ st.region = StringValue(d.Region)
    /\ st.tier = Int64Value(Int64(d.Tier))
    /\ st.retention = Int64Value(Int64(d.RetentionValue))
    /\ st.retention_unit = StringValue(d.RetentionUnit)
    /\ st.deduplication = Int64Value(Int64(d.DeduplicationValue))
    /\ st.deduplication_unit = StringValue(d.DeduplicationUnit)
    /\ st.maintenance_window = StringValue(d.MaintenanceWindow)

\* C25: after ImportState of a deployment and a successful Read, every
\* required attribute holds the remote value: the ten Read copies one to one,
\* and storage_size with storage_size_unit, which are not null and give the
\* remote size in GB.
C25_ImportReconstructsDeployment ==
    (rtype = Deployment /\ last.op = "Import" /\ Succeeded /\ state # Absent) =>
        \A d \in RemoteOf(Deployment, state, remote) :
            /\ ReadFromRemote(state, d)
            /\ ~IsNull(state.storage_size)
            /\ ~IsNull(state.storage_size_unit)
            /\ ValueString(state.storage_size_unit) \in {Str("GB"), Str("TB")}
            /\ d.StorageSizeGb =
                 IF ValueString(state.storage_size_unit) = Str("TB")
                 THEN Mul1024(ValueInt64(state.storage_size))
                 ELSE ValueInt64(state.storage_size)
\* A deployment was imported, its Read ended without an error, and
\* storage_size and storage_size_unit are null in state.
C25_FailingState ==
    /\ rtype = Deployment
    /\ last.op = "Import"
    /\ last.handlers = <<"ImportState", "Read">>
    /\ Succeeded
    /\ state # Absent
    /\ RemoteOf(Deployment, state, remote) # {}
    /\ IsNull(state.storage_size)
    /\ IsNull(state.storage_size_unit)
\* The ten attributes Read copies one to one do hold the remote value.
C25_Elsewhere ==
    (rtype = Deployment /\ last.op = "Import" /\ Succeeded /\ state # Absent) =>
        /\ RemoteOf(Deployment, state, remote) # {}
        /\ \A d \in RemoteOf(Deployment, state, remote) : ReadFromRemote(state, d)

\* The state of an access token after the Create that made the remote token
\* from configuration cfg, followed by a successful Read of the remote as it
\* is now.
CreatedThenRead(cfg, token, rem) ==
    AccessTokenRead(
        AccessTokenCreate(PlanOf(AccessTokenSchema, cfg, Absent),
                          rem \ {token}, token.CreatedAt, TRUE).state,
        rem, token.CreatedAt + 1, TRUE).state
\* The configurations whose Create makes the remote token.
ConfigsCreating(token) ==
    {cfg \in AccessTokenConfigs :
        \E t \in AccessTokenCreate(PlanOf(AccessTokenSchema, cfg, Absent), {},
                                   token.CreatedAt, TRUE).remote :
            [t EXCEPT !.LastUsedAt = token.LastUsedAt] = token}

\* C26: the state after ImportState of an existing access token and a
\* successful Read equals, attribute by attribute, the state after the Create
\* that made the token and a successful Read.
C26_ImportAndCreateConverge ==
    (rtype = AccessToken /\ last.op = "Import" /\ Succeeded /\ state # Absent) =>
        \A token \in RemoteOf(AccessToken, state, remote) :
            /\ ConfigsCreating(token) # {}
            /\ \A cfg \in ConfigsCreating(token) :
                 state = CreatedThenRead(cfg, token, remote)
\* An access token made with tenant_id = "" was imported and read: the state
\* holds a null tenant_id, the state after Create and Read an empty one.
C26_FailingState ==
    /\ rtype = AccessToken
    /\ last.op = "Import"
    /\ last.handlers = <<"ImportState", "Read">>
    /\ Succeeded
    /\ state # Absent
    /\ state.tenant_id = StringNull
    /\ \E token \in RemoteOf(AccessToken, state, remote) :
         \E cfg \in ConfigsCreating(token) :
            /\ cfg.tenant_id = StringValue(Empty)
            /\ CreatedThenRead(cfg, token, remote).tenant_id = StringValue(Empty)
            /\ \A a \in DOMAIN state \ {"tenant_id"} :
                 CreatedThenRead(cfg, token, remote)[a] = state[a]
\* For a token made with a tenant_id that is null or not empty the two
\* states are equal.
C26_Elsewhere ==
    (rtype = AccessToken /\ last.op = "Import" /\ Succeeded /\ state # Absent) =>
        \A token \in RemoteOf(AccessToken, state, remote) :
            \A cfg \in ConfigsCreating(token) :
                cfg.tenant_id # StringValue(Empty) =>
                    state = CreatedThenRead(cfg, token, remote)

\* C27: a deployment or an access token in state has a known id (a token a
\* known deployment_id too), and no Read or Update, successful or failed,
\* removes the resource from state or changes its id or the token's
\* deployment_id.
C27_IdentifierStable ==
    /\ []((rtype \in {Deployment, AccessToken} /\ state # Absent) =>
            /\ state.id.k = "value"
            /\ rtype = AccessToken => state.deployment_id.k = "value")
    /\ [][(rtype \in {Deployment, AccessToken} /\ state # Absent
             /\ last'.op \in {"Read", "Update"}) =>
            /\ state' # Absent
            /\ state'.id = state.id
            /\ rtype = AccessToken => state'.deployment_id = state.deployment_id
         ]_vars
\* A successful Update of a deployment toward another type: the id is the
\* one Create stored.
C27_Witness ==
    /\ rtype = Deployment
    /\ last.op = "Update"
    /\ Succeeded
    /\ state # Absent
    /\ state.id = StringValue(IdOf(0))
    /\ state.type = StringValue(Str("cluster"))

\* C28: for each resource type, a Read of a resource whose remote counterpart
\* is gone reports an error and leaves the state as it was, the resource
\* still in it.
C28_ReadNeverDropsMissing ==
    [][(state # Absent /\ RemoteOf(rtype, state, remote) = {}
          /\ last'.op = "Read") =>
            /\ HasError(last'.diags)
            /\ state' = state
            /\ state' # Absent
            /\ remote' = remote
      ]_vars
\* A deployment was created, deleted on the console, and then read.
C28_Witness ==
    /\ rtype = Deployment
    /\ state # Absent
    /\ nextId = 1
    /\ remote = {}
    /\ last.op = "Read"
    /\ Reported(last.diags, "Error Reading Deployment")
    /\ state.id = StringValue(IdOf(0))
    /\ state.name = StringValue(Str("Single demo"))

\* The strings a flag list of the plan stands for: none for a null list.
SentFor(list) ==
    IF list.k = "null" THEN <<>> ELSE [i \in 1..Len(list.v) |-> list.v[i].v]
\* The request carries the four flag lists of the plan, and no type,
\* cloud provider or region.
CarriesFlagsOf(request, plan) ==
    /\ {"SingleFlags", "SelectFlags", "StorageFlags", "InsertFlags"}
         = DOMAIN request.Flags
    /\ request.Flags.SingleFlags = SentFor(plan.single_flags)
    /\ request.Flags.SelectFlags = SentFor(plan.select_flags)
    /\ request.Flags.StorageFlags = SentFor(plan.storage_flags)
    /\ request.Flags.InsertFlags = SentFor(plan.insert_flags)
    /\ DOMAIN request \cap {"Type", "Provider", "CloudProvider", "Region"} = {}
\* The flag lists of the plan that hold a null element.
NullElementLists(plan) ==
    {a \in {"single_flags", "select_flags", "storage_flags", "insert_flags"} :
        \E i \in 1..Len(plan[a].v) : plan[a].v[i].k # "value"}
\* The plans the host can hand to Update of the deployment in state.
UpdatePlans ==
    IF rtype # Deployment \/ state = Absent THEN {}
    ELSE {PlanOf(DeploymentSchema, cfg, state) :
            cfg \in {c \in DeploymentConfigs :
                       PlannedAction(DeploymentSchema, c, state) = "update"}}

\* C29 as stated: Update of a deployment sends, for every plan, one request
\* that carries all four flag lists of the plan (empty for a null list) and no
\* type, cloud provider or region.
C29_AlwaysSendsFlagLists ==
    \A plan \in UpdatePlans, ok \in BOOLEAN :
        LET r == DeploymentUpdate(plan, state, remote, nextId, ok)
        IN /\ Len(r.calls) = 1
           /\ CarriesFlagsOf(r.calls[1].request, plan)
\* C29: every request Update of a deployment sends carries all four flag
\* lists of the plan, empty for a null list and otherwise the list's elements
\* in order, and no type, cloud provider or region; Update sends no request,
\* and reports an error, exactly when a flag list holds a null element. After
\* a successful Update the remote flags are the ones sent, so empty for a list
\* the configuration omits, and the remote type, cloud provider and region are
\* as before.
C29_UpdateSendsFlagLists ==
    /\ [](\A plan \in UpdatePlans, ok \in BOOLEAN :
            LET r == DeploymentUpdate(plan, state, remote, nextId, ok)
            IN IF NullElementLists(plan) # {}
               THEN r.calls = NoCalls /\ HasError(r.diags) /\ r.remote = remote
               ELSE /\ Len(r.calls) = 1
                    /\ r.calls[1].method = "UpdateDeployment"
                    /\ CarriesFlagsOf(r.calls[1].request, plan))
    /\ [][(rtype = Deployment /\ last'.op = "Update" /\ ~HasError(last'.diags)) =>
            /\ Len(last'.calls) = 1
            /\ CarriesFlagsOf(last'.calls[1].request, state')
            /\ \A d \in RemoteOf(Deployment, state', remote') :
                 /\ d.Flags = last'.calls[1].request.Flags
                 /\ \A a \in {"single_flags", "select_flags",
                              "storage_flags", "insert_flags"} :
                      state'[a] = ListNull =>
                        d.Flags[CASE a = "single_flags" -> "SingleFlags"
                                  [] a = "select_flags" -> "SelectFlags"
                                  [] a = "storage_flags" -> "StorageFlags"
                                  [] a = "insert_flags" -> "InsertFlags"] = <<>>
                 /\ \A e \in RemoteOf(Deployment, state, remote) :
                      /\ d.Type = e.Type
                      /\ d.CloudProvider = e.CloudProvider
                      /\ d.Region = e.Region
            /\ RemoteOf(Deployment, state', remote') # {}
         ]_vars
\* A successful Update with single_flags configured and the other three
\* lists omitted: the remote holds the one single flag and no other.
C29_Witness ==
    /\ rtype = Deployment
    /\ last.op = "Update"
    /\ Succeeded
    /\ state # Absent
    /\ state.single_flags = SingleDemo.single_flags
    /\ Len(state.single_flags.v) = 1
    /\ state.select_flags = ListNull
    /\ Len(last.calls) = 1
    /\ last.calls[1].request.Flags.SelectFlags = <<>>
    /\ \A d \in RemoteOf(Deployment, state, remote) :
         /\ d.Flags.SingleFlags = <<state.single_flags.v[1].v>>
         /\ d.Flags.SelectFlags = <<>>
         /\ d.Flags.StorageFlags = <<>>
         /\ d.Flags.InsertFlags = <<>>
    /\ RemoteOf(Deployment, state, remote) # {}
====
